---- MODULE Spec2Model ----
(***************************************************************************)
(* A model of the statement interpreter of parser.c and of the object      *)
(* operations of object.c / none.c.                                        *)
(*                                                                         *)
(* The interpreter is a recursive-descent parser that executes while it    *)
(* parses.  Its C call stack is the variable `stack': one frame per        *)
(* active C function, each with the place (pc) where that function         *)
(* continues.  One action is one straight-line stretch of one C function,  *)
(* up to the next call of another modelled function or its return.         *)
(***************************************************************************)
EXTENDS Integers, Sequences, FiniteSets, TLC

VARIABLES
    prog,            \* the token stream the scanner delivers for the source file
    pos,             \* reader position: index in prog of scanner.token (0: none read)
    stack,           \* the C call stack of the interpreter, innermost frame last
    cret,            \* the value returned by the C function that returned last
    scope,           \* the scope stack: frames of identifiers, innermost last
    heap,            \* every object ever allocated, by address; heap[1] is `none'
    do_break,        \* parser.c: static int do_break
    do_continue,     \* parser.c: static int do_continue
    return_value,    \* the return slot (0: NULL)
    return_address,  \* the jmp_buf a return jumps to: an activation (0: main)
    ncalls,          \* number of function_call activations started so far
    status,          \* "run", "done" (ENDMARKER or exit via main) or "error"
    err,             \* the kind of the fatal error that stopped the interpreter
    ev,              \* what the last step did (history, read by the properties)
    opr              \* the operation / operands / result of the last object operation

vars == <<prog, pos, stack, cret, scope, heap, do_break, do_continue,
          return_value, return_address, ncalls, status, err, ev, opr>>

----------------------------------------------------------------------------
(* Bounds of the model. *)

\* Number of statements of the main program drawn from the statements below.
MaxStmts == 2

\* Number of objects the object-allocation specification keeps allocated.
MaxObjs == 3

NULL == 0

----------------------------------------------------------------------------
(* Tokens.  The scanner is outside the core; a program is the sequence of  *)
(* tokens it delivers: t the token, s an identifier's name, v the value    *)
(* of an integer literal, str the characters of a string literal; in a     *)
(* program each token also tells the indentation level after it.           *)

Tok(t, s, v, str) == [t |-> t, s |-> s, v |-> v, str |-> str]
K(t)     == Tok(t, "", 0, <<>>)
Id(n)    == Tok("IDENTIFIER", n, 0, <<>>)
Num(v)   == Tok("INT", "", v, <<>>)
Str(cs)  == Tok("STR", "", 0, cs)
NL       == K("NEWLINE")
IND      == K("INDENT")
DED      == K("DEDENT")
LP       == K("LPAR")
RP       == K("RPAR")
CM       == K("COMMA")
EQ       == K("EQUAL")

\* f(a1, ..., an) with integer literal arguments, as an expression
Call0(f)          == <<Id(f), LP, RP>>
Call1(f, a)       == <<Id(f), LP, Num(a), RP>>
Call2(f, a, b)    == <<Id(f), LP, Num(a), CM, Num(b), RP>>
Call3(f, a, b, c) == <<Id(f), LP, Num(a), CM, Num(b), CM, Num(c), RP>>

----------------------------------------------------------------------------
(* The programs.  A program is: two function definitions, the declaration  *)
(* `int x = 1, y = 1', up to MaxStmts statements drawn from Statements,    *)
(* and the remaining function definitions, so that calls in the main       *)
(* program come both after and before the definition they call.            *)

\* def one()            def two(a, b)
\*     return 1             return b
DefOne == <<K("DEFFUNC"), Id("one"), LP, RP, NL, IND,
            K("RETURN"), Num(1), NL, DED>>
DefTwo == <<K("DEFFUNC"), Id("two"), LP, Id("a"), CM, Id("b"), RP, NL, IND,
            K("RETURN"), Id("b"), NL, DED>>

\* def nothing()        def brk()        def cont()
\*     one()                break            continue
DefNothing == <<K("DEFFUNC"), Id("nothing"), LP, RP, NL, IND>>
              \o Call0("one") \o <<NL, DED>>
DefBrk  == <<K("DEFFUNC"), Id("brk"), LP, RP, NL, IND, K("BREAK"), NL, DED>>
DefCont == <<K("DEFFUNC"), Id("cont"), LP, RP, NL, IND, K("CONTINUE"), NL, DED>>

\* def rec(n)                       def loops()
\*     if n                             for c in "ab"
\*         while 1                          int k = 3
\*             return rec(0)                return k
\*     return 7
DefRec == <<K("DEFFUNC"), Id("rec"), LP, Id("n"), RP, NL, IND,
            K("IF"), Id("n"), NL, IND,
            K("WHILE"), Num(1), NL, IND,
            K("RETURN")>> \o Call1("rec", 0) \o <<NL, DED, DED,
            K("RETURN"), Num(7), NL, DED>>
DefLoops == <<K("DEFFUNC"), Id("loops"), LP, RP, NL, IND,
              K("FOR"), Id("c"), K("IN"), Str(<<97, 98>>), NL, IND,
              K("DEFINT"), Id("k"), EQ, Num(3), NL,
              K("RETURN"), Id("k"), NL, DED, DED>>

DefsBefore == DefOne \o DefTwo
DefsAfter  == DefNothing \o DefBrk \o DefCont \o DefRec \o DefLoops

\* int x = 1, y = 1
Prelude == <<K("DEFINT"), Id("x"), EQ, Num(1), CM, Id("y"), EQ, Num(1), NL>>

\* x = y NEWLINE y = 0 NEWLINE : with x = y = 1 a loop on x runs twice
StepXY == <<Id("x"), EQ, Id("y"), NL, Id("y"), EQ, Num(0), NL>>

Statements == <<
    \* 1   while x / x = y / y = 0
    <<K("WHILE"), Id("x"), NL, IND>> \o StepXY \o <<DED>>,
    \* 2   while 0 / pass
    <<K("WHILE"), Num(0), NL, IND, K("PASS"), NL, DED>>,
    \* 3   while 1 / break / if 1 / pass
    <<K("WHILE"), Num(1), NL, IND, K("BREAK"), NL,
      K("IF"), Num(1), NL, IND, K("PASS"), NL, DED, DED>>,
    \* 4   while x / if y / x = 0 / continue / else / pass / pass / break
    <<K("WHILE"), Id("x"), NL, IND,
      K("IF"), Id("y"), NL, IND, Id("x"), EQ, Num(0), NL, K("CONTINUE"), NL, DED,
      K("ELSE"), NL, IND, K("PASS"), NL, DED,
      K("PASS"), NL, K("BREAK"), NL, DED>>,
    \* 5   while cont() / pass
    <<K("WHILE")>> \o Call0("cont") \o <<NL, IND, K("PASS"), NL, DED>>,
    \* 6   while 1 / brk() / pass
    <<K("WHILE"), Num(1), NL, IND>> \o Call0("brk") \o <<NL, K("PASS"), NL, DED>>,
    \* 7   do / x = y / y = 0 / while x
    <<K("DO"), NL, IND>> \o StepXY \o <<DED, K("WHILE"), Id("x"), NL>>,
    \* 8   do / continue / pass / while cont()
    <<K("DO"), NL, IND, K("CONTINUE"), NL, K("PASS"), NL, DED, K("WHILE")>>
      \o Call0("cont") \o <<NL>>,
    \* 9   for c in "ab" / continue / pass
    <<K("FOR"), Id("c"), K("IN"), Str(<<97, 98>>), NL, IND,
      K("CONTINUE"), NL, K("PASS"), NL, DED>>,
    \* 10  for x in "" / pass
    <<K("FOR"), Id("x"), K("IN"), Str(<< >>), NL, IND, K("PASS"), NL, DED>>,
    \* 11  for y in "ab" / break
    <<K("FOR"), Id("y"), K("IN"), Str(<<97, 98>>), NL, IND, K("BREAK"), NL, DED>>,
    \* 12  if y / pass / else / x = 0
    <<K("IF"), Id("y"), NL, IND, K("PASS"), NL, DED,
      K("ELSE"), NL, IND, Id("x"), EQ, Num(0), NL, DED>>,
    \* 13  two(4, 5)
    Call2("two", 4, 5) \o <<NL>>,
    \* 14  two(4, 5, 6)
    Call3("two", 4, 5, 6) \o <<NL>>,
    \* 15  two(4)
    Call1("two", 4) \o <<NL>>,
    \* 16  x = nothing()
    <<Id("x"), EQ>> \o Call0("nothing") \o <<NL>>,
    \* 17  y = rec(1)
    <<Id("y"), EQ>> \o Call1("rec", 1) \o <<NL>>,
    \* 18  loops()
    Call0("loops") \o <<NL>>,
    \* 19  return
    <<K("RETURN"), NL>>,
    \* 20  while loops(), x / x = y / y = 0 / break
    <<K("WHILE")>> \o Call0("loops") \o <<CM, Id("x"), NL, IND>>
      \o StepXY \o <<K("BREAK"), NL, DED>> >>

RECURSIVE Concat(_)
Concat(ss) == IF ss = << >> THEN << >> ELSE Head(ss) \o Concat(Tail(ss))

RECURSIVE Chosen(_)
\* the k-th sequence of indices of Statements; the 0-th is the empty one
Chosen(k) ==
    IF k = 0 THEN << >>
    ELSE Append(Chosen((k - 1) \div Len(Statements)),
                ((k - 1) % Len(Statements)) + 1)

RECURSIVE NumChoices(_)
\* the number of sequences of at most n indices of Statements
NumChoices(n) == IF n = 0 THEN 1 ELSE 1 + Len(Statements) * NumChoices(n - 1)

\* the indentation level after token i: INDENTs minus DEDENTs so far
Levels(toks, i) ==
    Cardinality({r \in 1..i : toks[r].t = "INDENT"})
    - Cardinality({r \in 1..i : toks[r].t = "DEDENT"})

\* the tokens, each with the indentation level the scanner has after it; the
\* pieces of the corpus are whole statements, so the level within a piece is
\* the level within the file
Indented(toks) ==
    [i \in 1..Len(toks) |->
        [t |-> toks[i].t, s |-> toks[i].s, v |-> toks[i].v, str |-> toks[i].str,
         level |-> Levels(toks, i)]]

Opening == Indented(DefsBefore \o Prelude)
Closing == Indented(DefsAfter \o <<K("ENDMARKER")>>)
Pieces  == [i \in 1..Len(Statements) |-> Indented(Statements[i]) \o << >>]

Program(choice) ==
    Opening \o Concat([i \in 1..Len(choice) |-> Pieces[choice[i]]]) \o Closing

\* the source files, one for each choice of at most MaxStmts statements
Programs == {Program(Chosen(k)) : k \in 0..(NumChoices(MaxStmts) - 1)}

----------------------------------------------------------------------------
(* The scanner and the reader: scanner.token is the token at pos.          *)

Token(p) == IF p \in 1..Len(prog) THEN prog[p]
            ELSE IF p = 0 THEN K("UNKNOWN") ELSE K("ENDMARKER")

Tk(p) == Token(p).t

\* scanner.next(): the token after ENDMARKER is ENDMARKER again
ScanNext(p) == IF p < Len(prog) THEN p + 1 ELSE p

\* accept(t): the position after accept, which is p itself when it returns 0
Accept(p, t) == IF Tk(p) = t THEN ScanNext(p) ELSE p

----------------------------------------------------------------------------
(* Objects.  heap[a] is the object at address a: its type, its reference   *)
(* count (0 once freed), its value, and `bound': whether it was ever the   *)
(* value of an identifier.  A list's value is the sequence of the          *)
(* addresses of its elements.  Address 1 holds the singleton `none'.       *)

NoneAddr == 1

Types == {"char", "int", "float", "str", "list", "listnode", "position", "none"}

\* NoneObject none = { .refcount = 1, .type = NONE_T, ... }
none == [type |-> "none", refcount |-> 1, val |-> 0, bound |-> FALSE]

DefaultVal(type) == IF type \in {"str", "list"} THEN << >> ELSE 0

\* <type>.alloc(): a fresh object whose reference count is still 0
\* (none_alloc returns the address of the singleton instead)
TypeAlloc(h, type) ==
    IF type = "none"
    THEN [h |-> h, obj |-> NoneAddr]
    ELSE [h   |-> Append(h, [type |-> type, refcount |-> 0,
                             val |-> DefaultVal(type), bound |-> FALSE]),
          obj |-> Len(h) + 1]

obj_incref(h, o) == [h EXCEPT ![o].refcount = @ + 1]

obj_alloc_noincref(h, type) == TypeAlloc(h, type)

\* obj_alloc(type): allocate, then obj_incref(obj)
obj_alloc(h, type) ==
    LET a == TypeAlloc(h, type)
    IN  [h |-> obj_incref(a.h, a.obj), obj |-> a.obj]

\* obj_create(type, value): obj_alloc, then vset (none_vset sets nothing)
obj_create(h, type, val) ==
    LET a == obj_alloc(h, type)
    IN  [h   |-> IF type = "none" THEN a.h ELSE [a.h EXCEPT ![a.obj].val = val],
         obj |-> a.obj]

RECURSIVE obj_decref(_, _)
RECURSIVE FreeAll(_, _)
\* obj_decref(o): at zero the object is freed; a list releases its elements,
\* a list-node the object it contains
obj_decref(h, o) ==
    LET h1 == [h EXCEPT ![o].refcount = @ - 1]
    IN  IF h1[o].refcount = 0 /\ h1[o].type = "list"
        THEN FreeAll(h1, h1[o].val)
        ELSE IF h1[o].refcount = 0 /\ h1[o].type = "listnode" /\ h1[o].val # 0
        THEN obj_decref(h1, h1[o].val)
        ELSE h1
FreeAll(h, os) ==
    IF os = << >> THEN h ELSE FreeAll(obj_decref(h, Head(os)), Tail(os))

Live(h) == {a \in 1..Len(h) : a # NoneAddr /\ h[a].refcount > 0}

----------------------------------------------------------------------------
(* Operations on objects (object.c).  A character is its code, a string    *)
(* the sequence of the codes of its characters; a float of the model has   *)
(* an integral value.  A list-node's value is the address of the object    *)
(* it contains.                                                            *)

isListNode(h, o) == h[o].type = "listnode"
isNumber(h, o)   == h[o].type \in {"char", "int", "float"}
isString(h, o)   == h[o].type = "str"
isList(h, o)     == h[o].type = "list"
isSequence(h, o) == h[o].type \in {"str", "list"}

\* op1 = isListNode(op1) ? obj_from_listnode(op1) : op1
Deref(h, o) == IF isListNode(h, o) THEN h[o].val ELSE o

Val(v)    == [err |-> "", v |-> v]
Bad(kind) == [err |-> kind, v |-> 0]

\* str_to_char(s)
str_to_char(s) ==
    LET ch(i) == IF i <= Len(s) THEN s[i] ELSE 0     \* s[i-1] of the C string
        esc == (48 :> 0) @@ (98 :> 8) @@ (102 :> 12) @@ (110 :> 10) @@ (114 :> 13)
               @@ (116 :> 9) @@ (118 :> 11) @@ (92 :> 92) @@ (39 :> 39) @@ (34 :> 34)
    IN  IF ch(1) = 92
        THEN IF ch(2) \notin DOMAIN esc THEN Bad("ValueError")
             ELSE IF ch(3) # 0 THEN Bad("SyntaxError")
             ELSE Val(esc[ch(2)])
        ELSE IF ch(1) = 0 THEN Bad("SyntaxError")
        ELSE IF ch(2) # 0 THEN Bad("SyntaxError")
        ELSE Val(ch(1))

RECURSIVE DigitsValue(_, _)
\* the value of the digits cs, read after the value acc
DigitsValue(cs, acc) ==
    IF cs = << >> THEN acc
    ELSE DigitsValue(Tail(cs), 10 * acc + (Head(cs) - 48))

\* str_to_int(s): strtol must consume the whole string (strings of an
\* optional sign and digits; the empty string converts to 0)
str_to_int(s) ==
    LET signed == s # << >> /\ s[1] \in {43, 45}
        digits == IF signed THEN Tail(s) ELSE s
    IN  IF \E i \in 1..Len(digits) : digits[i] \notin 48..57 THEN Bad("ValueError")
        ELSE IF digits = << >> THEN (IF signed THEN Bad("ValueError") ELSE Val(0))
        ELSE Val(IF signed /\ s[1] = 45 THEN 0 - DigitsValue(digits, 0)
                 ELSE DigitsValue(digits, 0))

\* str_to_float(s): as str_to_int, for the integral values of the model
str_to_float(s) == str_to_int(s)

obj_as_char(h, op1) ==
    LET o == Deref(h, op1)
    IN  IF isNumber(h, o) THEN Val(h[o].val % 256)
        ELSE IF isString(h, o) THEN str_to_char(h[o].val)
        ELSE Bad("ValueError")

obj_as_int(h, op1) ==
    LET o == Deref(h, op1)
    IN  IF isNumber(h, o) THEN Val(h[o].val)
        ELSE IF isString(h, o) THEN str_to_int(h[o].val)
        ELSE Bad("ValueError")

obj_as_float(h, op1) ==
    LET o == Deref(h, op1)
    IN  IF isNumber(h, o) THEN Val(h[o].val)
        ELSE IF isString(h, o) THEN str_to_float(h[o].val)
        ELSE Bad("ValueError")

obj_as_str(h, op1) ==
    LET o == Deref(h, op1)
    IN  IF isString(h, o) THEN Val(h[o].val) ELSE Bad("ValueError")

\* the ListObject * is the address of the list
obj_as_list(h, op1) ==
    LET o == Deref(h, op1)
    IN  IF isList(h, o) THEN Val(o) ELSE Bad("ValueError")

obj_as_bool(h, op1) ==
    LET o == Deref(h, op1)
    IN  IF isNumber(h, o) THEN Val(IF h[o].val # 0 THEN 1 ELSE 0)
        ELSE Bad("ValueError")

Res(h, o)    == [err |-> "", h |-> h, obj |-> o]
Err(kind)    == [err |-> kind, h |-> << >>, obj |-> NULL]
Created(c)   == Res(c.h, c.obj)

RECURSIVE DecDigits(_)
DecDigits(n) == IF n < 10 THEN <<48 + n>> ELSE Append(DecDigits(n \div 10), 48 + (n % 10))

\* snprintf(buffer, BUFSIZE, "%ld", n)
DecStr(n) == IF n < 0 THEN <<45>> \o DecDigits(0 - n) ELSE DecDigits(n)

\* TYPENAME(obj)
TypeName == ("char" :> <<99, 104, 97, 114>>) @@ ("int" :> <<105, 110, 116>>)
            @@ ("float" :> <<102, 108, 111, 97, 116>>) @@ ("str" :> <<115, 116, 114>>)
            @@ ("list" :> <<108, 105, 115, 116>>)
            @@ ("listnode" :> <<108, 105, 115, 116, 110, 111, 100, 101>>)
            @@ ("position" :> <<112, 111, 115, 105, 116, 105, 111, 110>>)
            @@ ("none" :> <<110, 111, 110, 101>>)

\* obj_to_strobj(obj): the switch is on TYPE(obj) itself
obj_to_strobj(h, obj) ==
    LET t == h[obj].type
    IN  IF t = "str" THEN Res(obj_incref(h, obj), obj)
        ELSE IF t = "char"
             THEN Created(obj_create(h, "str",
                     IF obj_as_char(h, obj).v = 0 THEN << >>
                     ELSE <<obj_as_char(h, obj).v>>))
        ELSE IF t \in {"int", "float"}
             THEN Created(obj_create(h, "str", DecStr(h[obj].val)))
        ELSE IF t = "none" THEN Created(obj_create(h, "str", <<78, 111, 110, 101>>))
        ELSE Created(obj_create(h, "str", << >>))

\* obj_type(op1): obj_create(STR_T, TYPENAME(op1))
obj_type(h, op1) == Created(obj_create(h, "str", TypeName[h[op1].type]))

RECURSIVE CopyAll(_, _, _)
RECURSIVE obj_copy(_, _)
\* the elements os copied one by one, their copies appended to acc
CopyAll(h, os, acc) ==
    IF os = << >> THEN [h |-> h, v |-> acc]
    ELSE LET c == obj_copy(h, Head(os))
         IN  CopyAll(c.h, Tail(os), Append(acc, c.obj))

\* obj_copy(op1): a list is copied with copies of its elements
obj_copy(h, op1) ==
    LET t == h[op1].type
    IN  IF t \in {"char", "int", "float", "str"}
        THEN Created(obj_create(h, t, h[op1].val))
        ELSE IF t = "list"
        THEN LET c == CopyAll(h, h[op1].val, << >>)
             IN  Created(obj_create(c.h, "list", c.v))
        ELSE IF t = "listnode" THEN obj_copy(h, h[op1].val)
        ELSE Err("TypeError")

\* set of a scalar or string object: the value is stored
ObjSet(h, o, v) == [h EXCEPT ![o].val = v]

\* obj_assign(op1, op2): op1 = (type op1) op2
obj_assign(h, op1, op2) ==
    LET t == h[op1].type
    IN  IF t \in {"char", "int", "float"}
        THEN LET c == IF t = "char" THEN obj_as_char(h, op2)
                      ELSE IF t = "int" THEN obj_as_int(h, op2)
                      ELSE obj_as_float(h, op2)
             IN  IF c.err # "" THEN Err(c.err) ELSE Res(ObjSet(h, op1, c.v), op1)
        ELSE IF t = "str"
        THEN LET so == obj_to_strobj(h, op2)
                 c  == obj_as_str(so.h, so.obj)
             IN  IF c.err # "" THEN Err(c.err)
                 ELSE Res(obj_decref(ObjSet(so.h, op1, c.v), so.obj), op1)
        ELSE IF t = "list"
        THEN LET c  == obj_as_list(h, op2)
                 cp == CopyAll(h, h[c.v].val, << >>)
             IN  IF c.err # "" THEN Err(c.err)
                 ELSE Res(ObjSet(FreeAll(cp.h, h[op1].val), op1, cp.v), op1)
        ELSE IF t = "listnode"
        THEN LET cp == obj_copy(h, op2)
             IN  IF cp.err # "" THEN Err(cp.err)
                 ELSE Res(obj_decref(ObjSet(cp.h, op1, cp.obj), h[op1].val), op1)
        ELSE Err("TypeError")

\* obj_length(sequence)
obj_length(h, sequence) ==
    LET o == Deref(h, sequence)
    IN  IF isSequence(h, o) THEN Val(Len(h[o].val)) ELSE Bad("TypeError")

\* obj_item(sequence, index): a negative index counts from the end; the item
\* of a string is a new char, the item of a list is the element itself
obj_item(h, sequence, index) ==
    LET o == Deref(h, sequence)
        n == IF isSequence(h, o) THEN Len(h[o].val) ELSE 0
        i == IF index < 0 THEN index + n ELSE index
    IN  IF ~isSequence(h, o) THEN Err("TypeError")
        ELSE IF i < 0 \/ i >= n THEN Err("IndexError")
        ELSE IF isString(h, o) THEN Created(obj_create(h, "char", h[o].val[i + 1]))
        ELSE Res(obj_incref(h, h[o].val[i + 1]), h[o].val[i + 1])

RECURSIVE EqualValues(_, _, _)
\* numbertype.eql, strtype.eql and listtype.eql on objects of their types:
\* numbers are equal when their values are, strings when their characters
\* are, lists when they have the same length and equal elements
EqualValues(h, a, b) ==
    IF isList(h, a)
    THEN /\ Len(h[a].val) = Len(h[b].val)
         /\ \A i \in 1..Len(h[a].val) :
               LET x == Deref(h, h[a].val[i])
                   y == Deref(h, h[b].val[i])
               IN  /\ \/ isNumber(h, x) /\ isNumber(h, y)
                      \/ isString(h, x) /\ isString(h, y)
                      \/ isList(h, x) /\ isList(h, y)
                   /\ EqualValues(h, x, y)
    ELSE h[a].val = h[b].val

\* the operands have types that numbertype, strtype or listtype compares
Comparable(h, a, b) ==
    \/ isNumber(h, a) /\ isNumber(h, b)
    \/ isString(h, a) /\ isString(h, b)
    \/ isList(h, a) /\ isList(h, b)

\* obj_eql without the two lines that replace a list-node by its object
obj_eql_noderef(h, op1, op2) ==
    IF Comparable(h, op1, op2)
    THEN Created(obj_create(h, "int", IF EqualValues(h, op1, op2) THEN 1 ELSE 0))
    ELSE Created(obj_create(h, "int", 0))

\* obj_eql(op1, op2): result = (int_t)(op1 == op2)
obj_eql(h, op1, op2) ==
    LET a == Deref(h, op1)
        b == Deref(h, op2)
    IN  IF Comparable(h, a, b)
        THEN Created(obj_create(h, "int", IF EqualValues(h, a, b) THEN 1 ELSE 0))
        ELSE Created(obj_create(h, "int", 0))

\* obj_neq(op1, op2): result = (int_t)(op1 != op2)
obj_neq(h, op1, op2) ==
    LET a == Deref(h, op1)
        b == Deref(h, op2)
    IN  IF Comparable(h, a, b)
        THEN Created(obj_create(h, "int", IF EqualValues(h, a, b) THEN 0 ELSE 1))
        ELSE Created(obj_create(h, "int", 1))

RECURSIVE InLoop(_, _, _, _, _, _)
\* for (i = 0; i < len; i++): release the previous result, compare op1 with
\* item i, release the item, stop at the first item that compares equal
InLoop(h, op1, op2, i, len, result) ==
    IF i >= len THEN Res(h, result)
    ELSE LET h1   == IF result # NULL THEN obj_decref(h, result) ELSE h
             item == obj_item(h1, op2, i)
             r    == obj_eql(item.h, op1, item.obj)
             h2   == obj_decref(r.h, item.obj)
         IN  IF obj_as_int(h2, r.obj).v = 1 THEN Res(h2, r.obj)
             ELSE InLoop(h2, op1, op2, i + 1, len, r.obj)

\* obj_in(op1, op2): result = (int_t)(op1 in (sequence)op2); result is NULL
\* until the loop has compared an item
obj_in(h, op1, op2) ==
    LET a == Deref(h, op1)
        b == Deref(h, op2)
    IN  IF ~isSequence(h, b) THEN Err("TypeError")
        ELSE InLoop(h, a, b, 0, obj_length(h, b).v, NULL)

----------------------------------------------------------------------------
(* The identifier table: scope is the stack of frames; a frame is the      *)
(* ordered table of its identifiers, each a name and the address of its    *)
(* object (NULL: unbound).  An Identifier * is <<level, index>>.           *)

NoId == <<0, 0>>

RECURSIVE IndexIn(_, _, _)
\* the index of the first identifier called name in frame fr from index i on, or 0
IndexIn(fr, name, i) ==
    IF i > Len(fr) THEN 0
    ELSE IF fr[i].name = name THEN i ELSE IndexIn(fr, name, i + 1)

RECURSIVE SearchFrom(_, _, _)
SearchFrom(sc, name, lvl) ==
    IF lvl = 0 THEN NoId
    ELSE IF IndexIn(sc[lvl], name, 1) # 0 THEN <<lvl, IndexIn(sc[lvl], name, 1)>>
    ELSE SearchFrom(sc, name, lvl - 1)

\* identifier.search(name): innermost frame first
IdSearch(sc, name) == SearchFrom(sc, name, Len(sc))

\* identifier.add(name): NoId (NULL) when the current frame has the name
IdAdd(sc, name) ==
    IF IndexIn(sc[Len(sc)], name, 1) # 0
    THEN [sc |-> sc, id |-> NoId]
    ELSE [sc |-> [sc EXCEPT ![Len(sc)] = Append(@, [name |-> name, object |-> NULL])],
          id |-> <<Len(sc), Len(sc[Len(sc)]) + 1>>]

ObjOf(sc, id) == sc[id[1]][id[2]].object

\* identifier.unbind(id)
IdUnbind(sc, h, id) ==
    IF ObjOf(sc, id) = NULL THEN [sc |-> sc, h |-> h]
    ELSE [sc |-> [sc EXCEPT ![id[1]][id[2]].object = NULL],
          h  |-> obj_decref(h, ObjOf(sc, id))]

\* identifier.bind(id, obj)
IdBind(sc, h, id, o) ==
    LET u == IdUnbind(sc, h, id)
    IN  [sc |-> [u.sc EXCEPT ![id[1]][id[2]].object = o],
         h  |-> [obj_incref(u.h, o) EXCEPT ![o].bound = TRUE]]

\* scope.append_level()
AppendLevel(sc) == Append(sc, << >>)

RECURSIVE UnbindAll(_, _, _)
UnbindAll(sc, h, i) ==
    IF i > Len(sc[Len(sc)]) THEN [sc |-> sc, h |-> h]
    ELSE LET u == IdUnbind(sc, h, <<Len(sc), i>>)
         IN  UnbindAll(u.sc, u.h, i + 1)

\* scope.remove_level(): release every binding of the innermost frame, pop it
RemoveLevel(sc, h) ==
    LET u == UnbindAll(sc, h, 1)
    IN  [sc |-> SubSeq(u.sc, 1, Len(sc) - 1), h |-> u.h]

\* the identifier names visible, each with the frame that search finds it in
VisibleNames(sc) ==
    UNION {{sc[l][i].name : i \in 1..Len(sc[l])} : l \in 1..Len(sc)}

----------------------------------------------------------------------------
(* Skipping code.                                                          *)

Ok(p)        == [err |-> "", pos |-> p]
Failed(kind) == [err |-> kind, pos |-> 0]

RECURSIVE SkipToDedent(_, _)
\* do { scanner.next(); if INDENT level++; if DEDENT level--; }
\* while (level && scanner.token != ENDMARKER);
SkipToDedent(p, level) ==
    LET q  == ScanNext(p)
        l2 == IF Tk(q) = "INDENT" THEN level + 1
              ELSE IF Tk(q) = "DEDENT" THEN level - 1 ELSE level
    IN  IF l2 # 0 /\ Tk(q) # "ENDMARKER" THEN SkipToDedent(q, l2) ELSE q

\* skip_block(): expect(NEWLINE); expect(INDENT); skip to the DEDENT of the
\* block; scanner.next()
skip_block(p) ==
    IF Tk(p) # "NEWLINE" \/ Tk(ScanNext(p)) # "INDENT"
    THEN Failed("SyntaxError")
    ELSE Ok(ScanNext(SkipToDedent(ScanNext(ScanNext(p)), 1)))

\* a loop that leaves the reader where its last condition ended
LoopBlockLeft(p) == Ok(p)

\* while_stmnt, for_stmnt: the skip_block() after the loop
LoopBlockSkipped(p) == skip_block(p)

\* an if statement that runs into the block it should skip
BranchLeft(p) == Ok(ScanNext(ScanNext(p)))

\* if_stmnt: the skip_block() of the branch that is not taken
BranchSkipped(p) == skip_block(p)

RECURSIVE SkipLine(_)
\* while (scanner.token != NEWLINE && scanner.token != ENDMARKER) scanner.next();
SkipLine(p) ==
    IF Tk(p) # "NEWLINE" /\ Tk(p) # "ENDMARKER" THEN SkipLine(ScanNext(p)) ELSE p

\* skip_function(): expect(IDENTIFIER); expect(LPAR); skip the rest of the
\* line; skip_block()
skip_function(p) ==
    IF Tk(p) # "IDENTIFIER" \/ Tk(ScanNext(p)) # "LPAR"
    THEN Failed("SyntaxError")
    ELSE skip_block(SkipLine(ScanNext(ScanNext(p))))

\* the same as SkipToDedent, but blind to INDENT
RECURSIVE SkipToDedentFlat(_)
SkipToDedentFlat(p) ==
    LET q == ScanNext(p)
    IN  IF Tk(q) # "DEDENT" /\ Tk(q) # "ENDMARKER" THEN SkipToDedentFlat(q) ELSE q

FastForwardFlat(p) == SkipToDedentFlat(p)

\* block(): the rest of the block is skipped when a break or continue is pending
FastForward(p) == SkipToDedent(p, 1)

----------------------------------------------------------------------------
(* The C call stack.                                                       *)

Top        == stack[Len(stack)]
Popped     == SubSeq(stack, 1, Len(stack) - 1)
SetTop(f)  == [stack EXCEPT ![Len(stack)] = f]
At(pc)     == [Top EXCEPT !.pc = pc]
New(fn)    == [fn |-> fn, pc |-> "start"]
\* the running function continues at frame f after the call of callee
Call(f, callee) == Append(SetTop(f), callee)

Running(fn, pc) ==
    /\ status = "run"
    /\ stack # << >>
    /\ Top.fn = fn
    /\ Top.pc = pc

NoEv == [k |-> "step"]

flagVars == <<do_break, do_continue>>
retVars  == <<return_value, return_address, ncalls>>

\* error(kind, ...): the interpreter stops
FailEv(kind, e) ==
    /\ status' = "error"
    /\ err' = kind
    /\ ev' = e
    /\ UNCHANGED <<prog, pos, stack, cret, scope, heap, flagVars, retVars, opr>>

Fail(kind) == FailEv(kind, [k |-> "error"])

\* reader.save(): a fresh position object holding the current position
ReaderSave(h, p) == obj_create(h, "position", p)

----------------------------------------------------------------------------
(* parser() and function_declaration()                                     *)

ParserStart ==
    /\ Running("parser", "start")
    /\ stack' = Call(At("next"), New("function_declaration"))
    /\ ev' = NoEv
    /\ UNCHANGED <<prog, pos, cret, scope, heap, flagVars, retVars, status, err, opr>>

\* one pass of the do-loop body of function_declaration, with the token
\* after a definition skipped as well
DeclScanSkipping(p, sc, h) ==
    IF Tk(p) = "DEFFUNC"
    THEN LET p1  == ScanNext(p)
             add == IdAdd(sc, Token(p1).s)
             sv  == ReaderSave(h, p1)
             b   == IdBind(add.sc, sv.h, add.id, sv.obj)
             sf  == skip_function(p1)
         IN  IF Tk(p1) # "IDENTIFIER" THEN [err |-> "SyntaxError"]
             ELSE IF add.id = NoId THEN [err |-> "NameError"]
             ELSE IF sf.err # "" THEN [err |-> sf.err]
             ELSE [err |-> "", pos |-> ScanNext(sf.pos), sc |-> b.sc, h |-> b.h]
    ELSE [err |-> "", pos |-> ScanNext(p), sc |-> sc, h |-> h]

\* one pass of the do-loop body of function_declaration
DeclScan(p, sc, h) ==
    IF Tk(p) = "DEFFUNC"
    THEN LET p1  == ScanNext(p)
             add == IdAdd(sc, Token(p1).s)
             sv  == ReaderSave(h, p1)
             b   == IdBind(add.sc, sv.h, add.id, sv.obj)
             sf  == skip_function(p1)
         IN  IF Tk(p1) # "IDENTIFIER" THEN [err |-> "SyntaxError"]
             ELSE IF add.id = NoId THEN [err |-> "NameError"]
             ELSE IF sf.err # "" THEN [err |-> sf.err]
             ELSE [err |-> "", pos |-> sf.pos, sc |-> b.sc, h |-> b.h]
    ELSE [err |-> "", pos |-> ScanNext(p), sc |-> sc, h |-> h]

RECURSIVE DeclLoop(_, _, _)
\* do { ... } while (scanner.token != ENDMARKER)
DeclLoop(p, sc, h) ==
    LET r == DeclScan(p, sc, h)
    IN  IF r.err # "" \/ Tk(r.pos) = "ENDMARKER" THEN r
        ELSE DeclLoop(r.pos, r.sc, r.h)

\* reader.reset(); the do-loop over the whole program; reader.reset()
FunctionDeclaration ==
    /\ Running("function_declaration", "start")
    /\ LET r == DeclLoop(0, scope, heap)
       IN  IF r.err # "" THEN Fail(r.err)
           ELSE /\ scope' = r.sc
                /\ heap' = r.h
                /\ pos' = 0
                /\ stack' = Popped
                /\ ev' = [k |-> "prescan_done"]
                /\ UNCHANGED <<prog, cret, flagVars, retVars, status, err, opr>>

ParserNext ==
    /\ Running("parser", "next")
    /\ pos' = ScanNext(pos)
    /\ stack' = Call(At("after"), New("statement"))
    /\ ev' = NoEv
    /\ UNCHANGED <<prog, cret, scope, heap, flagVars, retVars, status, err, opr>>

ParserAfter ==
    /\ Running("parser", "after")
    /\ IF Tk(pos) = "ENDMARKER"
       THEN /\ stack' = << >>
            /\ status' = "done"
            /\ ev' = [k |-> "endmarker"]
       ELSE /\ stack' = Call(Top, New("statement"))
            /\ status' = status
            /\ ev' = NoEv
    /\ UNCHANGED <<prog, pos, cret, scope, heap, flagVars, retVars, err, opr>>

----------------------------------------------------------------------------
(* statement(): the token selects the statement; its function then runs    *)
(* in place of statement(), which has nothing left to do after it.  The    *)
(* programs of the model hold no import, input or print statement.         *)

DeclTypes == ("DEFCHAR" :> "char") @@ ("DEFINT" :> "int") @@ ("DEFFLOAT" :> "float")
             @@ ("DEFSTR" :> "str") @@ ("DEFLIST" :> "list")

Handler == ("FOR" :> "for_stmnt") @@ ("DO" :> "do_stmnt") @@ ("IF" :> "if_stmnt")
           @@ ("RETURN" :> "return_stmt") @@ ("DEDENT" :> "return_stmt")
           @@ ("WHILE" :> "while_stmnt")

\* the statements that are a function of their own
StatementCall ==
    /\ Running("statement", "start")
    /\ Tk(pos) \notin {"DEFFUNC", "PASS", "BREAK", "CONTINUE", "ENDMARKER"}
    /\ pos' = IF Tk(pos) \in DOMAIN DeclTypes \cup DOMAIN Handler
              THEN ScanNext(pos) ELSE pos
    /\ stack' = SetTop(
          IF Tk(pos) \in DOMAIN DeclTypes
          THEN [fn |-> "variable_declaration", pc |-> "start",
                type |-> DeclTypes[Tk(pos)]]
          ELSE IF Tk(pos) \in DOMAIN Handler THEN New(Handler[Tk(pos)])
          ELSE New("expression_stmnt"))
    /\ ev' = [k |-> "statement", at |-> pos]
    /\ UNCHANGED <<prog, cret, scope, heap, flagVars, retVars, status, err, opr>>

\* def: skip_function();  pass: expect(NEWLINE);  ENDMARKER: nothing
StatementSkip ==
    /\ Running("statement", "start")
    /\ Tk(pos) \in {"DEFFUNC", "PASS", "ENDMARKER"}
    /\ LET p1 == ScanNext(pos)
           r  == IF Tk(pos) = "DEFFUNC" THEN skip_function(p1)
                 ELSE IF Tk(pos) = "ENDMARKER" THEN Ok(p1)
                 ELSE IF Tk(p1) = "NEWLINE" THEN Ok(ScanNext(p1))
                 ELSE Failed("SyntaxError")
       IN  IF r.err # "" THEN Fail(r.err)
           ELSE /\ pos' = r.pos
                /\ stack' = Popped
                /\ ev' = [k |-> "statement", at |-> pos]
                /\ UNCHANGED <<prog, cret, scope, heap, flagVars, retVars,
                               status, err, opr>>

\* break: do_break = 1
StatementBreak ==
    /\ Running("statement", "start")
    /\ Tk(pos) = "BREAK"
    /\ pos' = ScanNext(pos)
    /\ do_break' = 1
    /\ stack' = Popped
    /\ ev' = [k |-> "statement", at |-> pos]
    /\ UNCHANGED <<prog, cret, scope, heap, do_continue, retVars, status, err, opr>>

\* continue: do_continue = 1
StatementContinue ==
    /\ Running("statement", "start")
    /\ Tk(pos) = "CONTINUE"
    /\ pos' = ScanNext(pos)
    /\ do_continue' = 1
    /\ stack' = Popped
    /\ ev' = [k |-> "statement", at |-> pos]
    /\ UNCHANGED <<prog, cret, scope, heap, do_break, retVars, status, err, opr>>

----------------------------------------------------------------------------
(* block()                                                                 *)

\* expect(NEWLINE); expect(INDENT); the first statement()
BlockStart ==
    /\ Running("block", "start")
    /\ IF Tk(pos) # "NEWLINE" \/ Tk(ScanNext(pos)) # "INDENT"
       THEN Fail("SyntaxError")
       ELSE /\ pos' = ScanNext(ScanNext(pos))
            /\ stack' = Call([fn |-> "block", pc |-> "after", ind |-> ScanNext(pos)],
                             New("statement"))
            /\ ev' = NoEv
            /\ UNCHANGED <<prog, cret, scope, heap, flagVars, retVars, status, err, opr>>

\* after a statement: leave at DEDENT or ENDMARKER, skip the rest when a
\* break or continue is pending, else the next statement()
BlockAfter ==
    /\ Running("block", "after")
    /\ IF Tk(pos) \in {"DEDENT", "ENDMARKER"}
       THEN /\ pos' = pos
            /\ stack' = Popped
            /\ ev' = [k |-> "block_return", ind |-> Top.ind, ff |-> 0]
       ELSE IF do_break # 0 \/ do_continue # 0
       THEN /\ pos' = FastForward(pos)
            /\ stack' = Popped
            /\ ev' = [k |-> "block_return", ind |-> Top.ind, ff |-> pos]
       ELSE /\ pos' = pos
            /\ stack' = Call(Top, New("statement"))
            /\ ev' = NoEv
    /\ UNCHANGED <<prog, cret, scope, heap, flagVars, retVars, status, err, opr>>

----------------------------------------------------------------------------
(* expression_stmnt() and condition()                                      *)

ExpressionStmntStart ==
    /\ Running("expression_stmnt", "start")
    /\ stack' = Call(At("done"), New("comma_expr"))
    /\ ev' = NoEv
    /\ UNCHANGED <<prog, pos, cret, scope, heap, flagVars, retVars, status, err, opr>>

\* obj_decref(obj); expect(NEWLINE)
ExpressionStmntDone ==
    /\ Running("expression_stmnt", "done")
    /\ IF Tk(pos) # "NEWLINE" THEN Fail("SyntaxError")
       ELSE /\ heap' = obj_decref(heap, cret)
            /\ pos' = ScanNext(pos)
            /\ stack' = Popped
            /\ ev' = NoEv
            /\ UNCHANGED <<prog, cret, scope, flagVars, retVars, status, err, opr>>

ConditionStart ==
    /\ Running("condition", "start")
    /\ stack' = Call(At("eval"), New("comma_expr"))
    /\ ev' = NoEv
    /\ UNCHANGED <<prog, pos, cret, scope, heap, flagVars, retVars, status, err, opr>>

\* result = obj_as_bool(obj); obj_decref(obj); return result
ConditionEval ==
    /\ Running("condition", "eval")
    /\ IF obj_as_bool(heap, cret).err # "" THEN Fail(obj_as_bool(heap, cret).err)
       ELSE /\ cret' = obj_as_bool(heap, cret).v
            /\ heap' = obj_decref(heap, cret)
            /\ stack' = Popped
            /\ ev' = NoEv
            /\ UNCHANGED <<prog, pos, scope, flagVars, retVars, status, err, opr>>

----------------------------------------------------------------------------
(* if_stmnt()                                                              *)

IfStart ==
    /\ Running("if_stmnt", "start")
    /\ stack' = Call([Top EXCEPT !.pc = "test"] @@ [at |-> pos], New("condition"))
    /\ ev' = NoEv
    /\ UNCHANGED <<prog, pos, cret, scope, heap, flagVars, retVars, status, err, opr>>

\* true: block();  false: skip_block(), and block() if else follows
\* The frame keeps the result of the condition; the event at the end of the
\* statement tells which block was run.
IfTest ==
    /\ Running("if_stmnt", "test")
    /\ IF cret # 0
       THEN /\ pos' = pos
            /\ stack' = Call([Top EXCEPT !.pc = "then"] @@ [cond |-> cret],
                             New("block"))
            /\ ev' = NoEv
            /\ UNCHANGED <<prog, cret, scope, heap, flagVars, retVars, status, err, opr>>
       ELSE LET sb == BranchSkipped(pos)
            IN  IF sb.err # "" THEN Fail(sb.err)
                ELSE /\ pos' = Accept(sb.pos, "ELSE")
                     /\ stack' = IF Tk(sb.pos) = "ELSE"
                                 THEN Call([Top EXCEPT !.pc = "else"] @@ [cond |-> cret],
                                           New("block"))
                                 ELSE Popped
                     /\ ev' = IF Tk(sb.pos) = "ELSE" THEN NoEv
                              ELSE [k |-> "if_exit", at |-> Top.at, cond |-> cret,
                                    ran |-> "none"]
                     /\ UNCHANGED <<prog, cret, scope, heap, flagVars, retVars,
                                    status, err, opr>>

\* after the then-block: expect(DEDENT); if (accept(ELSE)) skip_block()
IfThen ==
    /\ Running("if_stmnt", "then")
    /\ LET p1 == ScanNext(pos)
           r  == IF Tk(pos) # "DEDENT" THEN Failed("SyntaxError")
                 ELSE IF Tk(p1) = "ELSE" THEN BranchSkipped(ScanNext(p1))
                 ELSE Ok(p1)
       IN  IF r.err # "" THEN Fail(r.err)
           ELSE /\ pos' = r.pos
                /\ stack' = Popped
                /\ ev' = [k |-> "if_exit", at |-> Top.at, cond |-> Top.cond,
                          ran |-> "then"]
                /\ UNCHANGED <<prog, cret, scope, heap, flagVars, retVars,
                               status, err, opr>>

\* after the else-block: expect(DEDENT)
IfElse ==
    /\ Running("if_stmnt", "else")
    /\ IF Tk(pos) # "DEDENT" THEN Fail("SyntaxError")
       ELSE /\ pos' = ScanNext(pos)
            /\ stack' = Popped
            /\ ev' = [k |-> "if_exit", at |-> Top.at, cond |-> Top.cond,
                      ran |-> "else"]
            /\ UNCHANGED <<prog, cret, scope, heap, flagVars, retVars, status, err, opr>>

----------------------------------------------------------------------------
(* while_stmnt()                                                           *)

\* do_break = do_continue = 0; loop = reader.save(); the first condition()
WhileStart ==
    /\ Running("while_stmnt", "start")
    /\ do_break' = 0
    /\ do_continue' = 0
    /\ LET sv == ReaderSave(heap, pos)
       IN  /\ heap' = sv.h
           /\ stack' = Call([fn |-> "while_stmnt", pc |-> "test", loop |-> sv.obj,
                             at |-> pos, evals |-> 0, trues |-> 0, bodies |-> 0,
                             broken |-> -1],
                            New("condition"))
    /\ ev' = NoEv
    /\ UNCHANGED <<prog, pos, cret, scope, retVars, status, err, opr>>

\* while (condition() && !do_break) block();
\* after the loop: do_break = 0; skip_block(); obj_decref(loop)
\* The frame counts the evaluations of the condition, those that let the
\* body run, and the bodies run; broken is the number of evaluations made
\* when a body first came back with a break pending, -1 before that.
WhileTest ==
    /\ Running("while_stmnt", "test")
    /\ IF cret # 0 /\ do_break = 0
       THEN /\ stack' = Call([Top EXCEPT !.pc = "body", !.evals = @ + 1,
                                         !.trues = @ + 1],
                             New("block"))
            /\ ev' = NoEv
            /\ UNCHANGED <<prog, pos, cret, scope, heap, flagVars, retVars,
                           status, err, opr>>
       ELSE LET sb == LoopBlockSkipped(pos)
            IN  IF sb.err # "" THEN Fail(sb.err)
                ELSE /\ do_break' = 0
                     /\ pos' = sb.pos
                     /\ heap' = obj_decref(heap, Top.loop)
                     /\ stack' = Popped
                     /\ ev' = [k |-> "loop_exit", fn |-> "while_stmnt",
                               at |-> Top.at, evals |-> Top.evals + 1,
                               trues |-> Top.trues, bodies |-> Top.bodies,
                               broken |-> Top.broken, last |-> cret,
                               pending |-> do_break]
                     /\ UNCHANGED <<prog, cret, scope, do_continue, retVars,
                                    status, err, opr>>

\* after the block: do_continue = 0; reader.jump(loop); the next condition()
WhileBody ==
    /\ Running("while_stmnt", "body")
    /\ do_continue' = 0
    /\ pos' = heap[Top.loop].val
    /\ stack' = Call([Top EXCEPT !.pc = "test", !.bodies = @ + 1,
                                 !.broken = IF @ < 0 /\ do_break # 0
                                            THEN Top.evals ELSE @],
                     New("condition"))
    /\ ev' = NoEv
    /\ UNCHANGED <<prog, cret, scope, heap, do_break, retVars, status, err, opr>>

----------------------------------------------------------------------------
(* do_stmnt()                                                              *)

\* do_break = do_continue = 0; loop = reader.save(); reader.jump(loop); block()
DoStart ==
    /\ Running("do_stmnt", "start")
    /\ IF Tk(pos) # "NEWLINE" THEN Fail("SyntaxError")
       ELSE LET sv == ReaderSave(heap, pos)
            IN  /\ do_break' = 0
                /\ do_continue' = 0
                /\ heap' = sv.h
                /\ pos' = sv.h[sv.obj].val
                /\ stack' = Call([fn |-> "do_stmnt", pc |-> "body", loop |-> sv.obj],
                                 New("block"))
                /\ ev' = NoEv
                /\ UNCHANGED <<prog, cret, scope, retVars, status, err, opr>>

\* after the block: do_continue = 0; expect(DEDENT); expect(WHILE); condition()
DoBody ==
    /\ Running("do_stmnt", "body")
    /\ IF Tk(pos) # "DEDENT" \/ Tk(ScanNext(pos)) # "WHILE"
       THEN Fail("SyntaxError")
       ELSE /\ do_continue' = 0
            /\ pos' = ScanNext(ScanNext(pos))
            /\ stack' = Call(At("test"), New("condition"))
            /\ ev' = NoEv
            /\ UNCHANGED <<prog, cret, scope, heap, do_break, retVars, status, err, opr>>

\* while (condition() && !do_break);
\* after the loop: do_break = 0; expect(NEWLINE); obj_decref(loop)
DoTest ==
    /\ Running("do_stmnt", "test")
    /\ IF cret # 0 /\ do_break = 0
       THEN /\ pos' = heap[Top.loop].val
            /\ stack' = Call(At("body"), New("block"))
            /\ ev' = NoEv
            /\ UNCHANGED <<prog, cret, scope, heap, flagVars, retVars, status, err, opr>>
       ELSE IF Tk(pos) # "NEWLINE" THEN Fail("SyntaxError")
       ELSE /\ do_break' = 0
            /\ pos' = ScanNext(pos)
            /\ heap' = obj_decref(heap, Top.loop)
            /\ stack' = Popped
            /\ ev' = [k |-> "loop_exit", fn |-> "do_stmnt"]
            /\ UNCHANGED <<prog, cret, scope, do_continue, retVars, status, err, opr>>

----------------------------------------------------------------------------
(* for_stmnt()                                                             *)

\* id = identifier.search(name), or identifier.add(name) when there is none;
\* expect(IDENTIFIER); expect(IN); sequence = comma_expr()
ForStart ==
    /\ Running("for_stmnt", "start")
    /\ IF Tk(pos) # "IDENTIFIER" \/ Tk(ScanNext(pos)) # "IN"
       THEN Fail("SyntaxError")
       ELSE LET found == IdSearch(scope, Token(pos).s)
                add   == IdAdd(scope, Token(pos).s)
            IN  /\ scope' = IF found = NoId THEN add.sc ELSE scope
                /\ pos' = ScanNext(ScanNext(pos))
                /\ stack' = Call([fn |-> "for_stmnt", pc |-> "seq",
                                  id |-> IF found = NoId THEN add.id ELSE found],
                                 New("comma_expr"))
                /\ ev' = NoEv
                /\ UNCHANGED <<prog, cret, heap, flagVars, retVars, status, err, opr>>

\* for (...; i < len && !do_break; ...) { identifier.bind(id, obj_item(sequence, i));
\* block(); ... }  and after the loop: do_break = 0; skip_block(); obj_decref(loop)
\* The frame keeps what the identifier was bound to before the loop and
\* lists the items it was bound to, for the event at the end of the loop.
ForLoop(f, i, sc, h, p, brk) ==
    IF i < f.len /\ brk = 0
    THEN LET it == obj_item(h, f.sequence, i)
             b  == IdBind(sc, it.h, f.id, it.obj)
         IN  /\ scope' = b.sc
             /\ heap' = b.h
             /\ pos' = p
             /\ do_break' = brk
             /\ do_continue' = 0
             /\ stack' = Call([f EXCEPT !.pc = "body", !.i = i,
                                        !.items = Append(@, [type |-> it.h[it.obj].type,
                                                             val  |-> it.h[it.obj].val])],
                              New("block"))
             /\ ev' = NoEv
             /\ UNCHANGED <<prog, cret, retVars, status, err, opr>>
    ELSE LET sb == LoopBlockSkipped(p)
         IN  IF sb.err # "" THEN Fail(sb.err)
             ELSE /\ scope' = sc
                  /\ heap' = obj_decref(h, f.loop)
                  /\ pos' = sb.pos
                  /\ do_break' = 0
                  /\ do_continue' = 0
                  /\ stack' = Popped
                  /\ ev' = [k |-> "loop_exit", fn |-> "for_stmnt", id |-> f.id,
                            n |-> f.len, iters |-> i, items |-> f.items,
                            prior |-> f.prior, sequence |-> f.sequence,
                            pending |-> brk]
                  /\ UNCHANGED <<prog, cret, retVars, status, err, opr>>

\* len = obj_length(sequence); do_break = do_continue = 0; loop = reader.save()
ForSeq ==
    /\ Running("for_stmnt", "seq")
    /\ LET len == obj_length(heap, cret)
           sv  == ReaderSave(heap, pos)
       IN  IF len.err # "" THEN Fail(len.err)
           ELSE IF Tk(pos) # "NEWLINE" THEN Fail("SyntaxError")
           ELSE ForLoop([fn |-> "for_stmnt", pc |-> "seq", id |-> Top.id,
                         sequence |-> cret, len |-> len.v, loop |-> sv.obj, i |-> 0,
                         items |-> << >>,
                         prior |-> [object |-> ObjOf(scope, Top.id),
                                    val |-> IF ObjOf(scope, Top.id) = NULL THEN 0
                                            ELSE heap[ObjOf(scope, Top.id)].val]],
                        0, scope, sv.h, pos, 0)

\* after the block, without identifier.unbind(id)
ForBodyStillBound ==
    /\ Running("for_stmnt", "body")
    /\ ForLoop(Top, Top.i + 1, scope, heap, heap[Top.loop].val, do_break)

\* after the block: identifier.unbind(id); do_continue = 0; reader.jump(loop); i++
ForBody ==
    /\ Running("for_stmnt", "body")
    /\ LET u == IdUnbind(scope, heap, Top.id)
       IN  ForLoop(Top, Top.i + 1, u.sc, u.h, heap[Top.loop].val, do_break)

----------------------------------------------------------------------------
(* variable_declaration(type)                                              *)

\* if (accept(NEWLINE)) break; expect(COMMA);
DeclTail(p) ==
    IF Tk(p) = "NEWLINE" THEN [err |-> "", pos |-> ScanNext(p), more |-> FALSE]
    ELSE IF Tk(p) = "COMMA" THEN [err |-> "", pos |-> ScanNext(p), more |-> TRUE]
    ELSE [err |-> "SyntaxError", pos |-> p, more |-> FALSE]

\* id = identifier.add(name); identifier.bind(id, obj_alloc(type)); scanner.next();
\* if (accept(EQUAL)) obj = assignment_expr() ...
VariableDeclarationStart ==
    /\ Running("variable_declaration", "start")
    /\ LET add == IdAdd(scope, Token(pos).s)
           al  == obj_alloc(heap, Top.type)
           b   == IdBind(add.sc, al.h, add.id, al.obj)
           p1  == ScanNext(pos)
           tl  == DeclTail(p1)
       IN  IF Tk(pos) # "IDENTIFIER" THEN Fail("SyntaxError")
           ELSE IF add.id = NoId THEN Fail("NameError")
           ELSE IF Tk(p1) # "EQUAL" /\ tl.err # "" THEN Fail(tl.err)
           ELSE /\ scope' = b.sc
                /\ heap' = b.h
                /\ IF Tk(p1) = "EQUAL"
                   THEN /\ pos' = ScanNext(p1)
                        /\ stack' = Call([Top EXCEPT !.pc = "assigned"] @@ [id |-> add.id],
                                         New("assignment_expr"))
                   ELSE /\ pos' = tl.pos
                        /\ stack' = IF tl.more THEN stack ELSE Popped
                /\ ev' = NoEv
                /\ UNCHANGED <<prog, cret, flagVars, retVars, status, err, opr>>

\* obj_assign(id->object, obj); obj_decref(obj); then NEWLINE or COMMA
VariableDeclarationAssigned ==
    /\ Running("variable_declaration", "assigned")
    /\ LET as == obj_assign(heap, ObjOf(scope, Top.id), cret)
           tl == DeclTail(pos)
       IN  IF as.err # "" THEN Fail(as.err)
           ELSE IF tl.err # "" THEN Fail(tl.err)
           ELSE /\ heap' = obj_decref(as.h, cret)
                /\ pos' = tl.pos
                /\ stack' = IF tl.more
                            THEN SetTop([fn |-> "variable_declaration", pc |-> "start",
                                         type |-> Top.type])
                            ELSE Popped
                /\ ev' = NoEv
                /\ UNCHANGED <<prog, cret, scope, flagVars, retVars, status, err, opr>>

----------------------------------------------------------------------------
(* Expressions (expression.c): of the grammar the programs of the model    *)
(* use  comma_expr := assignment_expr (',' assignment_expr)*  and          *)
(* assignment_expr := IDENTIFIER '=' assignment_expr | primary, with       *)
(* primary := INT | STR | IDENTIFIER | IDENTIFIER '(' arguments ')'.       *)
(* An expression returns an object the caller has to release.              *)

CommaExprStart ==
    /\ Running("comma_expr", "start")
    /\ stack' = Call(At("more"), New("assignment_expr"))
    /\ ev' = NoEv
    /\ UNCHANGED <<prog, pos, cret, scope, heap, flagVars, retVars, status, err, opr>>

\* the value of a comma expression is the value of its last operand
CommaExprMore ==
    /\ Running("comma_expr", "more")
    /\ IF Tk(pos) = "COMMA"
       THEN /\ heap' = obj_decref(heap, cret)
            /\ pos' = ScanNext(pos)
            /\ stack' = Call(Top, New("assignment_expr"))
       ELSE /\ heap' = heap
            /\ pos' = pos
            /\ stack' = Popped
    /\ ev' = NoEv
    /\ UNCHANGED <<prog, cret, scope, flagVars, retVars, status, err, opr>>

\* a literal: a new object with the literal's value; a token that starts
\* no expression is a syntax error
ExprLiteral ==
    /\ Running("assignment_expr", "start")
    /\ Tk(pos) # "IDENTIFIER"
    /\ IF Tk(pos) \notin {"INT", "STR"} THEN Fail("SyntaxError")
       ELSE LET c == IF Tk(pos) = "INT" THEN obj_create(heap, "int", Token(pos).v)
                     ELSE obj_create(heap, "str", Token(pos).str)
            IN  /\ heap' = c.h
                /\ cret' = c.obj
                /\ pos' = ScanNext(pos)
                /\ stack' = Popped
                /\ ev' = NoEv
                /\ UNCHANGED <<prog, scope, flagVars, retVars, status, err, opr>>

\* an identifier: the left side of an assignment, the name of a called
\* function, or a variable whose value is loaded
ExprIdentifier ==
    /\ Running("assignment_expr", "start")
    /\ Tk(pos) = "IDENTIFIER"
    /\ LET id == IdSearch(scope, Token(pos).s)
           o  == ObjOf(scope, id)
           p1 == ScanNext(pos)
       IN  IF id = NoId THEN Fail("NameError")
           ELSE IF o = NULL THEN Fail("SystemError")
           ELSE IF Tk(p1) = "LPAR" /\ heap[o].type # "position" THEN Fail("TypeError")
           ELSE /\ pos' = IF Tk(p1) = "EQUAL" THEN ScanNext(p1) ELSE p1
                /\ stack' = IF Tk(p1) = "EQUAL"
                            THEN Call([fn |-> "assignment_expr", pc |-> "assign", id |-> id],
                                      New("assignment_expr"))
                            ELSE IF Tk(p1) = "LPAR"
                            THEN Call(At("called"),
                                      [fn |-> "function_call", pc |-> "start", addr |-> o])
                            ELSE Popped
                /\ heap' = IF Tk(p1) \in {"EQUAL", "LPAR"} THEN heap ELSE obj_incref(heap, o)
                /\ cret' = IF Tk(p1) \in {"EQUAL", "LPAR"} THEN cret ELSE o
                /\ ev' = IF Tk(p1) = "LPAR"
                         THEN [k |-> "call", name |-> Token(pos).s, at |-> pos]
                         ELSE NoEv
                /\ UNCHANGED <<prog, scope, flagVars, retVars, status, err, opr>>

\* obj_assign(id->object, value); the expression yields the variable's object
ExprAssign ==
    /\ Running("assignment_expr", "assign")
    /\ LET o  == ObjOf(scope, Top.id)
           as == obj_assign(heap, o, cret)
       IN  IF o = NULL THEN Fail("SystemError")
           ELSE IF as.err # "" THEN Fail(as.err)
           ELSE /\ heap' = obj_incref(obj_decref(as.h, cret), o)
                /\ cret' = o
                /\ stack' = Popped
                /\ ev' = NoEv
                /\ UNCHANGED <<prog, pos, scope, flagVars, retVars, status, err, opr>>

\* the value of a call is the object function_call returned
ExprCalled ==
    /\ Running("assignment_expr", "called")
    /\ stack' = Popped
    /\ ev' = NoEv
    /\ UNCHANGED <<prog, pos, cret, scope, heap, flagVars, retVars, status, err, opr>>

----------------------------------------------------------------------------
(* push_arguments() and pop_arguments()                                    *)

\* listnode_append(list, obj)
listnode_append(h, list, o) == [h EXCEPT ![list].val = Append(@, o)]

\* while (scanner.token != RPAR) obj = assignment_expr() ...; return list
PushLoop(f, h, p) ==
    /\ heap' = h
    /\ pos' = p
    /\ IF Tk(p) # "RPAR"
       THEN /\ stack' = Call(f, New("assignment_expr"))
            /\ cret' = cret
       ELSE /\ stack' = Popped
            /\ cret' = f.list
    /\ ev' = NoEv
    /\ UNCHANGED <<prog, scope, flagVars, retVars, status, err, opr>>

\* list = obj_alloc(LIST_T); expect(LPAR)
PushArgumentsStart ==
    /\ Running("push_arguments", "start")
    /\ IF Tk(pos) # "LPAR" THEN Fail("SyntaxError")
       ELSE LET al == obj_alloc(heap, "list")
            IN  PushLoop([fn |-> "push_arguments", pc |-> "arg", list |-> al.obj],
                         al.h, ScanNext(pos))

\* listnode_append(list, obj_copy(obj)); obj_decref(obj);
\* if (scanner.token == RPAR) continue; else expect(COMMA);
PushArgumentsArg ==
    /\ Running("push_arguments", "arg")
    /\ LET cp == obj_copy(heap, cret)
       IN  IF cp.err # "" THEN Fail(cp.err)
           ELSE IF Tk(pos) \notin {"RPAR", "COMMA"} THEN Fail("SyntaxError")
           ELSE PushLoop(Top, obj_decref(listnode_append(cp.h, Top.list, cp.obj), cret),
                         Accept(pos, "COMMA"))

RECURSIVE PopLoopFromEnd(_, _, _, _)
\* as PopLoop, with the argument taken from the end of the list
PopLoopFromEnd(p, sc, h, list) ==
    IF Tk(p) = "RPAR" THEN [err |-> "", pos |-> p, sc |-> sc, h |-> h]
    ELSE IF Tk(p) # "IDENTIFIER" THEN [err |-> "SyntaxError"]
    ELSE LET add == IdAdd(sc, Token(p).s)
             n   == Len(h[list].val)
             h1  == [h EXCEPT ![list].val = SubSeq(@, 1, n - 1)]
             b   == IdBind(add.sc, h1, add.id, h[list].val[n])
         IN  IF add.id = NoId THEN [err |-> "NameError"]
             ELSE IF h[list].val = << >> THEN [err |-> "SyntaxError"]
             ELSE PopLoopFromEnd(Accept(ScanNext(p), "COMMA"), b.sc, b.h, list)

RECURSIVE PopLoop(_, _, _, _)
\* while (scanner.token != RPAR) { id = identifier.add(name);
\* obj = listnode_remove(list, 0); identifier.bind(id, obj);
\* expect(IDENTIFIER); accept(COMMA); }
PopLoop(p, sc, h, list) ==
    IF Tk(p) = "RPAR" THEN [err |-> "", pos |-> p, sc |-> sc, h |-> h]
    ELSE IF Tk(p) # "IDENTIFIER" THEN [err |-> "SyntaxError"]
    ELSE LET add == IdAdd(sc, Token(p).s)
             h1  == [h EXCEPT ![list].val = Tail(@)]
             b   == IdBind(add.sc, h1, add.id, Head(h[list].val))
         IN  IF add.id = NoId THEN [err |-> "NameError"]
             ELSE IF h[list].val = << >> THEN [err |-> "SyntaxError"]
             ELSE PopLoop(Accept(ScanNext(p), "COMMA"), b.sc, b.h, list)

\* pop_arguments(list): expect(LPAR), then the loop over the formals
pop_arguments(p, sc, h, list) ==
    IF Tk(p) # "LPAR" THEN [err |-> "SyntaxError"]
    ELSE PopLoop(ScanNext(p), sc, h, list)

----------------------------------------------------------------------------
(* function_call() and return_stmt().  A jmp_buf holds the activation of   *)
(* function_call whose setjmp filled it (0: the one main() filled).        *)

\* the frames of function_call whose body is running, outermost first
ActiveCalls(st) ==
    SelectSeq(st, LAMBDA f : f.fn = "function_call" /\ f.pc = "body")

\* the activation a return has to end: the innermost call (0: none, main)
InnermostCall(st) ==
    LET active == ActiveCalls(st)
    IN  IF active = << >> THEN 0 ELSE active[Len(active)].act

\* the index in the stack of the frame of activation a (0: no such frame)
FrameOf(st, a) ==
    IF \E j \in 1..Len(st) : st[j].fn = "function_call" /\ st[j].pc = "body"
                             /\ st[j].act = a
    THEN CHOOSE j \in 1..Len(st) : st[j].fn = "function_call" /\ st[j].pc = "body"
                                   /\ st[j].act = a
    ELSE 0

\* the number of identifiers between the parentheses that open at p
RECURSIVE CountIds(_)
CountIds(p) ==
    IF Tk(p) \in {"RPAR", "NEWLINE", "ENDMARKER"} THEN 0
    ELSE (IF Tk(p) = "IDENTIFIER" THEN 1 ELSE 0) + CountIds(ScanNext(p))

\* the values of the objects bound in the frames sc
BoundValues(sc, h) ==
    [l \in 1..Len(sc) |->
        [i \in 1..Len(sc[l]) |->
            IF sc[l][i].object = NULL THEN [type |-> "unbound"]
            ELSE [type |-> h[sc[l][i].object].type, val |-> h[sc[l][i].object].val]]]

\* arglist = push_arguments()
FunctionCallStart ==
    /\ Running("function_call", "start")
    /\ stack' = Call([Top EXCEPT !.pc = "args"]
                       @@ [lpar |-> pos, scope0 |-> scope,
                           flags0 |-> <<do_break, do_continue>>],
                     New("push_arguments"))
    /\ ev' = NoEv
    /\ UNCHANGED <<prog, pos, cret, scope, heap, flagVars, retVars, status, err, opr>>

\* scope.append_level(); return_to = reader.save(); reader.jump(addr);
\* expect(IDENTIFIER); pop_arguments(arglist); expect(RPAR);
\* memcpy(&temp, &return_address, ...); setjmp(return_address); block()
FunctionCallArgs ==
    /\ Running("function_call", "args")
    /\ LET sv   == ReaderSave(heap, pos)
           p0   == heap[Top.addr].val
           pa   == pop_arguments(ScanNext(p0), AppendLevel(scope), sv.h, cret)
           args == [i \in 1..Len(heap[cret].val) |->
                       [type |-> heap[heap[cret].val[i]].type,
                        val  |-> heap[heap[cret].val[i]].val]]
           e    == [k |-> "args", m |-> Len(args), n |-> CountIds(ScanNext(p0)),
                    args |-> args, formals |-> ScanNext(p0), scope0 |-> scope,
                    values0 |-> BoundValues(scope, heap)]
       IN  IF Tk(p0) # "IDENTIFIER" THEN Fail("SyntaxError")
           ELSE IF pa.err # "" THEN FailEv(pa.err, e)
           ELSE IF Tk(pa.pos) # "RPAR" THEN Fail("SyntaxError")
           ELSE /\ scope' = pa.sc
                /\ heap' = pa.h
                /\ pos' = ScanNext(pa.pos)
                /\ return_address' = ncalls + 1
                /\ ncalls' = ncalls + 1
                /\ stack' = Call([Top EXCEPT !.pc = "body"]
                                   @@ [arglist |-> cret, return_to |-> sv.obj,
                                       temp |-> return_address, act |-> ncalls + 1,
                                       m |-> e.m, n |-> e.n,
                                       excess |-> pa.h[cret].val],
                                 New("block"))
                /\ ev' = e
                /\ UNCHANGED <<prog, cret, flagVars, return_value, status, err, opr>>

\* a call that forgets the jmp_buf it saved
StaleAddress(f) == f.act

\* memcpy(&return_address, &temp, sizeof(jmp_buf)): the jmp_buf that was
\* current when the call was made is current again
RestoredAddress(f) == f.temp

\* a call that leaves its result in the return slot
KeptSlot(rv) == rv

\* return_value = NULL: the return slot once the call has handed over its result
ClearedSlot(rv) == NULL

\* a call that leaves its frame on the scope stack
KeepFrame(sc, h) == [sc |-> sc, h |-> h]

\* scope.remove_level(): the frame of the call is popped
LeaveFrame(sc, h) == RemoveLevel(sc, h)

\* memcpy(&return_address, &temp, ...); if (return_value == NULL) return_value =
\* obj_create(INT_T, 0); obj_decref(arglist); reader.jump(return_to); accept(RPAR);
\* scope.remove_level(); obj_decref(return_to); obj = return_value;
\* return_value = NULL; return obj
FunctionCallBody ==
    /\ Running("function_call", "body")
    /\ LET rv == IF return_value = NULL THEN obj_create(heap, "int", 0)
                 ELSE [h |-> heap, obj |-> return_value]
           h1 == obj_decref(rv.h, Top.arglist)
           rl == LeaveFrame(scope, h1)
       IN  /\ return_address' = RestoredAddress(Top)
           /\ pos' = Accept(heap[Top.return_to].val, "RPAR")
           /\ scope' = rl.sc
           /\ heap' = obj_decref(rl.h, Top.return_to)
           /\ cret' = rv.obj
           /\ return_value' = ClearedSlot(rv.obj)
           /\ stack' = Popped
           /\ ev' = [k |-> "call_return", act |-> Top.act, lpar |-> Top.lpar,
                     scope0 |-> Top.scope0, m |-> Top.m, n |-> Top.n,
                     arglist |-> Top.arglist, excess |-> Top.excess,
                     viaReturn |-> (ev.k = "longjmp"),
                     left |-> IF ev.k = "longjmp" THEN ev.left ELSE {},
                     nested |-> (ncalls > Top.act), flags0 |-> Top.flags0]
    /\ UNCHANGED <<prog, flagVars, ncalls, status, err, opr>>

\* longjmp(return_address, 1): back in the function_call that filled the
\* jmp_buf, or in main(), which stops the interpreter; a jmp_buf whose
\* function_call has returned is no place to jump to
LongJmp(rv, p, h) ==
    IF return_address = 0
    THEN /\ status' = "exit"
         /\ err' = err
         /\ stack' = << >>
         /\ ev' = [k |-> "exit"]
         /\ return_value' = rv
         /\ pos' = p
         /\ heap' = h
         /\ UNCHANGED <<prog, cret, scope, flagVars, return_address, ncalls, opr>>
    ELSE IF FrameOf(stack, return_address) = 0
    THEN Fail("UndefinedBehaviour")
    ELSE /\ stack' = SubSeq(stack, 1, FrameOf(stack, return_address))
         /\ ev' = [k |-> "longjmp", target |-> return_address,
                   innermost |-> InnermostCall(stack),
                   left |-> {stack[j].fn : j \in FrameOf(stack, return_address) + 1
                                                  .. Len(stack)}]
         /\ return_value' = rv
         /\ pos' = p
         /\ heap' = h
         /\ UNCHANGED <<prog, cret, scope, flagVars, return_address, ncalls,
                        status, err, opr>>

\* if (scanner.token == NEWLINE) return_value = obj_create(INT_T, 0);
\* else return_value = comma_expr();
ReturnStart ==
    /\ Running("return_stmt", "start")
    /\ IF Tk(pos) = "NEWLINE"
       THEN LET c == obj_create(heap, "int", 0)
            IN  LongJmp(c.obj, ScanNext(pos), c.h)
       ELSE /\ stack' = Call(At("value"), New("comma_expr"))
            /\ ev' = NoEv
            /\ UNCHANGED <<prog, pos, cret, scope, heap, flagVars, retVars,
                           status, err, opr>>

\* return_value = comma_expr(); expect(NEWLINE); longjmp(return_address, 1)
ReturnValue ==
    /\ Running("return_stmt", "value")
    /\ IF Tk(pos) # "NEWLINE" THEN Fail("SyntaxError")
       ELSE LongJmp(cret, ScanNext(pos), heap)

----------------------------------------------------------------------------
(* The interpreter.                                                        *)

Init ==
    /\ prog \in Programs
    /\ pos = 0
    /\ stack = <<New("parser")>>
    /\ cret = 0
    /\ scope = << << >> >>
    /\ heap = <<none>>
    /\ do_break = 0
    /\ do_continue = 0
    /\ return_value = NULL
    /\ return_address = 0
    /\ ncalls = 0
    /\ status = "run"
    /\ err = ""
    /\ ev = [k |-> "init"]
    /\ opr = [op |-> "none"]

Next ==
    \/ ParserStart \/ FunctionDeclaration
    \/ ParserNext \/ ParserAfter
    \/ StatementCall \/ StatementSkip \/ StatementBreak \/ StatementContinue
    \/ BlockStart \/ BlockAfter
    \/ ExpressionStmntStart \/ ExpressionStmntDone
    \/ ConditionStart \/ ConditionEval
    \/ IfStart \/ IfTest \/ IfThen \/ IfElse
    \/ WhileStart \/ WhileTest \/ WhileBody
    \/ DoStart \/ DoBody \/ DoTest
    \/ ForStart \/ ForSeq \/ ForBody
    \/ VariableDeclarationStart \/ VariableDeclarationAssigned
    \/ CommaExprStart \/ CommaExprMore
    \/ ExprLiteral \/ ExprIdentifier \/ ExprAssign \/ ExprCalled
    \/ PushArgumentsStart \/ PushArgumentsArg
    \/ FunctionCallStart \/ FunctionCallArgs \/ FunctionCallBody
    \/ ReturnStart \/ ReturnValue

Spec == Init /\ [][Next]_vars

----------------------------------------------------------------------------
(* Allocation on its own: objects are allocated, created and released in   *)
(* any order.  opr tells the last operation, the number of allocations     *)
(* made and the number of references to `none' that are held.              *)

otherVars == <<prog, pos, stack, cret, scope, flagVars, retVars, status, err, ev>>

InitObj ==
    /\ prog = << >>
    /\ pos = 0
    /\ stack = << >>
    /\ cret = 0
    /\ scope = << << >> >>
    /\ heap = <<none>>
    /\ do_break = 0
    /\ do_continue = 0
    /\ return_value = NULL
    /\ return_address = 0
    /\ ncalls = 0
    /\ status = "objects"
    /\ err = ""
    /\ ev = [k |-> "init"]
    /\ opr = [op |-> "init", type |-> "none", obj |-> NULL, n |-> 0, held |-> 0]

Allocated(op, type, a) ==
    /\ heap' = a.h
    /\ opr' = [op |-> op, type |-> type, obj |-> a.obj, n |-> opr.n + 1,
               held |-> opr.held + (IF type = "none" THEN 1 ELSE 0)]
    /\ UNCHANGED otherVars

\* obj = obj_alloc(type)
ObjAlloc ==
    /\ status = "objects"
    /\ opr.n < MaxObjs
    /\ \E type \in Types : Allocated("alloc", type, obj_alloc(heap, type))

\* obj = obj_create(type, value)
ObjCreate ==
    /\ status = "objects"
    /\ opr.n < MaxObjs
    /\ \E type \in {"int", "str", "none"} :
          Allocated("create", type,
                    obj_create(heap, type, IF type = "str" THEN <<97>> ELSE 7))

\* obj_decref(obj) of an object a reference to which is held
ObjDecref ==
    /\ status = "objects"
    /\ \E o \in Live(heap) \cup {a \in {NoneAddr} : opr.held > 0} :
          /\ heap' = obj_decref(heap, o)
          /\ opr' = [op |-> "decref", type |-> heap[o].type, obj |-> o, n |-> opr.n,
                     held |-> opr.held - (IF o = NoneAddr THEN 1 ELSE 0)]
    /\ UNCHANGED otherVars

NextObj == ObjAlloc \/ ObjCreate \/ ObjDecref

SpecObj == InitObj /\ [][NextObj]_vars

----------------------------------------------------------------------------
(* The operations on their own: each is applied to objects of a fixed      *)
(* population and its result is recorded in opr, as an error or as the     *)
(* type and the rendered value of what it returned; the result is then     *)
(* released, which leaves the population as it was.                        *)

Obj(type, val, rc) == [type |-> type, refcount |-> rc, val |-> val, bound |-> FALSE]

\* a char, an int, a float, two strings, a list of the int and a string,
\* and a list-node for each of them
Population ==
    <<none,
      Obj("char", 97, 2), Obj("int", 5, 3), Obj("float", 2, 2),
      Obj("str", <<53>>, 3), Obj("str", <<97, 98>>, 2), Obj("list", <<3, 5>>, 2),
      Obj("listnode", 2, 1), Obj("listnode", 3, 1), Obj("listnode", 4, 1),
      Obj("listnode", 5, 1), Obj("listnode", 6, 1), Obj("listnode", 7, 1)>>

RECURSIVE Render(_, _)
RECURSIVE RenderAll(_, _)
\* the value of an object as a sequence of numbers
Render(h, o) ==
    IF h[o].type = "str" THEN h[o].val
    ELSE IF h[o].type = "list" THEN RenderAll(h, h[o].val)
    ELSE IF h[o].type = "listnode" THEN Render(h, h[o].val)
    ELSE <<h[o].val>>
RenderAll(h, os) ==
    IF os = << >> THEN << >>
    ELSE <<Len(Render(h, Head(os)))>> \o Render(h, Head(os)) \o RenderAll(h, Tail(os))

Failure(kind)   == [err |-> kind, type |-> "", val |-> << >>]
Scalar(type, r) == IF r.err # "" THEN Failure(r.err)
                   ELSE [err |-> "", type |-> type, val |-> <<r.v>>]
Object(r)       == IF r.err # "" THEN Failure(r.err)
                   ELSE [err |-> "", type |-> r.h[r.obj].type, val |-> Render(r.h, r.obj)]

\* the result of the operation op on the object o
Apply(op, h, o) ==
    IF op = "as_char" THEN Scalar("char", obj_as_char(h, o))
    ELSE IF op = "as_int" THEN Scalar("int", obj_as_int(h, o))
    ELSE IF op = "as_float" THEN Scalar("float", obj_as_float(h, o))
    ELSE IF op = "as_bool" THEN Scalar("bool", obj_as_bool(h, o))
    ELSE IF op = "as_list" THEN Scalar("list", obj_as_list(h, o))
    ELSE IF op = "as_str"
    THEN (IF obj_as_str(h, o).err # "" THEN Failure(obj_as_str(h, o).err)
          ELSE [err |-> "", type |-> "str", val |-> obj_as_str(h, o).v])
    ELSE IF op = "length" THEN Scalar("int", obj_length(h, o))
    ELSE IF op = "copy" THEN Object(obj_copy(h, o))
    ELSE IF op = "to_strobj" THEN Object(obj_to_strobj(h, o))
    ELSE IF op = "type" THEN Object(obj_type(h, o))
    ELSE IF op = "item0" THEN Object(obj_item(h, o, 0))
    ELSE Object(obj_item(h, o, -1))

\* the value of a new variable of the type after obj_assign(variable, o)
ApplyAssign(type, h, o) ==
    LET a == obj_alloc(h, type)
    IN  Object(obj_assign(a.h, a.obj, o))

InitOps ==
    /\ prog = << >>
    /\ pos = 0
    /\ stack = << >>
    /\ cret = 0
    /\ scope = << << >> >>
    /\ heap = Population
    /\ do_break = 0
    /\ do_continue = 0
    /\ return_value = NULL
    /\ return_address = 0
    /\ ncalls = 0
    /\ status = "operations"
    /\ err = ""
    /\ ev = [k |-> "init"]
    /\ opr = [op |-> "init", type |-> "", arg |-> NoneAddr, res |-> Failure("")]

Conversions == {"as_char", "as_int", "as_float", "as_bool", "as_list", "as_str"}

\* one of the obj_as_* conversions
OpConvert ==
    /\ status = "operations"
    /\ \E op \in Conversions, o \in 1..Len(heap) :
          opr' = [op |-> op, type |-> "", arg |-> o, res |-> Apply(op, heap, o)]
    /\ UNCHANGED <<heap, otherVars>>

\* obj_length, obj_item, obj_copy
OpSequence ==
    /\ status = "operations"
    /\ \E op \in {"length", "item0", "item-1", "copy"}, o \in 1..Len(heap) :
          opr' = [op |-> op, type |-> "", arg |-> o, res |-> Apply(op, heap, o)]
    /\ UNCHANGED <<heap, otherVars>>

\* obj_to_strobj, obj_type
OpToString ==
    /\ status = "operations"
    /\ \E op \in {"to_strobj", "type"}, o \in 1..Len(heap) :
          opr' = [op |-> op, type |-> "", arg |-> o, res |-> Apply(op, heap, o)]
    /\ UNCHANGED <<heap, otherVars>>

\* obj = obj_alloc(type); obj_assign(obj, value)
OpAssign ==
    /\ status = "operations"
    /\ \E type \in {"char", "int", "float", "str", "list"}, o \in 1..Len(heap) :
          opr' = [op |-> "assign", type |-> type, arg |-> o,
                  res |-> ApplyAssign(type, heap, o)]
    /\ UNCHANGED <<heap, otherVars>>

NextOps == OpConvert \/ OpSequence \/ OpToString \/ OpAssign

SpecOps == InitOps /\ [][NextOps]_vars

\* C10: every operation that receives a list-node gives the result it gives
\* for the object the node contains: the as_* conversions, length, item,
\* copy, obj_to_strobj, also as used by the assignment to a string
\* variable, and obj_type
C10_ListNodeActsAsItsValue ==
    (opr.op # "init" /\ isListNode(heap, opr.arg)) =>
        opr.res = IF opr.op = "assign"
                  THEN ApplyAssign(opr.type, heap, heap[opr.arg].val)
                  ELSE Apply(opr.op, heap, heap[opr.arg].val)

----------------------------------------------------------------------------
(* The comparisons on their own: obj_eql, obj_neq and obj_in are applied   *)
(* to every pair of objects of a fixed population, and opr records the     *)
(* operands and what came back.                                            *)

\* none, a char, two ints, a float, three strings of which one is empty,
\* three lists of which one is empty, list-nodes for an int, a string and
\* a list, and the position of a function
Operands ==
    <<none,
      Obj("char", 97, 1), Obj("int", 5, 3), Obj("int", 97, 2), Obj("float", 5, 1),
      Obj("str", <<53>>, 2), Obj("str", <<97>>, 2), Obj("str", << >>, 1),
      Obj("list", <<3, 6>>, 2), Obj("list", << >>, 1), Obj("list", <<4>>, 1),
      Obj("listnode", 3, 1), Obj("listnode", 7, 1), Obj("listnode", 9, 1),
      Obj("position", 10, 1)>>

\* what an operation returned: an error, NULL, or an object's type and value
Outcome(r) ==
    IF r.err # "" THEN Failure(r.err)
    ELSE IF r.obj = NULL THEN [err |-> "", type |-> "NULL", val |-> << >>]
    ELSE Object(r)

InitCmp ==
    /\ prog = << >>
    /\ pos = 0
    /\ stack = << >>
    /\ cret = 0
    /\ scope = << << >> >>
    /\ heap = Operands
    /\ do_break = 0
    /\ do_continue = 0
    /\ return_value = NULL
    /\ return_address = 0
    /\ ncalls = 0
    /\ status = "comparisons"
    /\ err = ""
    /\ ev = [k |-> "init"]
    /\ opr = [op |-> "init", left |-> NoneAddr, right |-> NoneAddr, res |-> Failure("")]

\* result = obj_eql(op1, op2); obj_decref(result)
OpEql ==
    /\ status = "comparisons"
    /\ \E l \in 1..Len(heap), r \in 1..Len(heap) :
          opr' = [op |-> "eql", left |-> l, right |-> r,
                  res |-> Outcome(obj_eql(heap, l, r))]
    /\ UNCHANGED <<heap, otherVars>>

\* result = obj_neq(op1, op2); obj_decref(result)
OpNeq ==
    /\ status = "comparisons"
    /\ \E l \in 1..Len(heap), r \in 1..Len(heap) :
          opr' = [op |-> "neq", left |-> l, right |-> r,
                  res |-> Outcome(obj_neq(heap, l, r))]
    /\ UNCHANGED <<heap, otherVars>>

\* result = obj_in(op1, op2)
OpIn ==
    /\ status = "comparisons"
    /\ \E l \in 1..Len(heap), r \in 1..Len(heap) :
          opr' = [op |-> "in", left |-> l, right |-> r,
                  res |-> Outcome(obj_in(heap, l, r))]
    /\ UNCHANGED <<heap, otherVars>>

NextCmp == OpEql \/ OpNeq \/ OpIn

SpecCmp == InitCmp /\ [][NextCmp]_vars

\* some item of the sequence at b compares equal to the object at a
SomeItemEqual(h, a, b) ==
    \E i \in 0..(Len(h[Deref(h, b)].val) - 1) :
        LET item == obj_item(h, b, i)
        IN  Outcome(obj_eql(item.h, a, item.obj)).val = <<1>>

\* C11: for every left operand and every string or list as right operand,
\* of any length, 0 included, obj_in returns an int that is 1 if some item
\* of the sequence compares equal to the left operand under obj_eql and 0
\* otherwise; for any other right operand it fails with TypeError
C11_InReturnsIntZeroOrOne ==
    opr.op = "in" =>
        IF isSequence(heap, Deref(heap, opr.right))
        THEN /\ opr.res.err = ""
             /\ opr.res.type = "int"
             /\ opr.res.val = IF SomeItemEqual(heap, opr.left, opr.right)
                              THEN <<1>> ELSE <<0>>
        ELSE opr.res = Failure("TypeError")

\* C12: obj_eql and obj_neq fail for no pair of operands; when the operands
\* are not both numbers, both strings or both lists obj_eql returns int 0
\* and obj_neq int 1; and for every pair the two results are complementary
C12_EqlAndNeqComplementary ==
    opr.op \in {"eql", "neq"} =>
        LET e == Outcome(obj_eql(heap, opr.left, opr.right))
            n == Outcome(obj_neq(heap, opr.left, opr.right))
        IN  /\ opr.res.err = ""
            /\ opr.res.type = "int"
            /\ opr.res = IF opr.op = "eql" THEN e ELSE n
            /\ ~Comparable(heap, Deref(heap, opr.left), Deref(heap, opr.right)) =>
                  opr.res.val = IF opr.op = "eql" THEN <<0>> ELSE <<1>>
            /\ e.val \in {<<0>>, <<1>>}
            /\ n.val = <<1 - e.val[1]>>

\* a list-node that contains a string was compared with an int
C12_StringNodeAgainstInt ==
    /\ opr.op = "neq"
    /\ isListNode(heap, opr.left)
    /\ isString(heap, Deref(heap, opr.left))
    /\ heap[opr.right].type = "int"
    /\ opr.res.val = <<1>>

----------------------------------------------------------------------------
(* str_to_char on its own: it is applied to every string of at most        *)
(* MaxLen characters of Alphabet, and opr records the string and what      *)
(* came back.                                                              *)

MaxLen == 4

\* backslash, 0, a, n, x
Alphabet == {92, 48, 97, 110, 120}

Strings(n) == UNION {[1..k -> Alphabet] : k \in 0..n}

InitChar ==
    /\ prog = << >>
    /\ pos = 0
    /\ stack = << >>
    /\ cret = 0
    /\ scope = << << >> >>
    /\ heap = <<none>>
    /\ do_break = 0
    /\ do_continue = 0
    /\ return_value = NULL
    /\ return_address = 0
    /\ ncalls = 0
    /\ status = "chars"
    /\ err = ""
    /\ ev = [k |-> "init"]
    /\ opr \in {[op |-> "init", s |-> s, res |-> Val(0)] : s \in Strings(MaxLen)}

\* c = str_to_char(s)
StrToChar ==
    /\ status = "chars"
    /\ opr.op = "init"
    /\ opr' = [op |-> "str_to_char", s |-> opr.s, res |-> str_to_char(opr.s)]
    /\ UNCHANGED <<heap, otherVars>>

NextChar == StrToChar

SpecChar == InitChar /\ [][NextChar]_vars

\* the character that a backslash followed by the character c denotes:
\* \0 \b \f \n \r \t \v \\ \' \"
Denoted ==
    (48 :> 0) @@ (98 :> 8) @@ (102 :> 12) @@ (110 :> 10) @@ (114 :> 13)
    @@ (116 :> 9) @@ (118 :> 11) @@ (92 :> 92) @@ (39 :> 39) @@ (34 :> 34)

\* C13: str_to_char fails with ValueError when the string is empty, when it
\* holds more than one character or escape sequence, and when it is a
\* backslash followed by a character that denotes nothing; in every other
\* case it returns the single character or the character the escape denotes
C13_BadCharIsValueError ==
    opr.op = "str_to_char" =>
        LET s == opr.s
            escape == s # << >> /\ s[1] = 92
        IN  IF \/ s = << >>
               \/ ~escape /\ Len(s) > 1
               \/ escape /\ Len(s) > 2
               \/ escape /\ (Len(s) < 2 \/ s[2] \notin DOMAIN Denoted)
            THEN opr.res = Bad("ValueError")
            ELSE opr.res = Val(IF escape THEN Denoted[s[2]] ELSE s[1])

----------------------------------------------------------------------------
(* The registry of objects of a DEBUG build: obj_alloc enqueues every      *)
(* object it returns and obj_free dequeues the object it frees.  opr holds *)
(* head and tail, the nextobj and prevobj fields of the objects by         *)
(* address, and the set of the objects allocated and not yet freed.        *)

\* _enqueue(item): add item to the end of the queue
enqueue(q, item) ==
    LET q1 == IF q.head = NULL
              THEN [q EXCEPT !.head = item, !.prevobj[item] = NULL]
              ELSE [[q EXCEPT !.prevobj[item] = q.tail] EXCEPT !.nextobj[q.tail] = item]
    IN  [[q1 EXCEPT !.tail = item] EXCEPT !.nextobj[item] = NULL]

\* _dequeue(item): remove item from the queue
dequeue(q, item) ==
    IF q.nextobj[item] = NULL
    THEN IF q.prevobj[item] = NULL
         THEN [q EXCEPT !.head = NULL, !.tail = NULL]
         ELSE [q EXCEPT !.tail = q.prevobj[item], !.nextobj[q.prevobj[item]] = NULL]
    ELSE IF q.prevobj[item] = NULL
         THEN [q EXCEPT !.head = q.nextobj[item], !.prevobj[q.nextobj[item]] = NULL]
         ELSE [[q EXCEPT !.nextobj[q.prevobj[item]] = q.nextobj[item]]
                  EXCEPT !.prevobj[q.nextobj[item]] = q.prevobj[item]]

\* the registry with the fields of an object that <type>.alloc() has made
WithFields(q, h) ==
    IF Len(q.nextobj) < Len(h)
    THEN [q EXCEPT !.nextobj = Append(@, NULL), !.prevobj = Append(@, NULL)]
    ELSE q

InitReg ==
    /\ prog = << >>
    /\ pos = 0
    /\ stack = << >>
    /\ cret = 0
    /\ scope = << << >> >>
    /\ heap = <<none>>
    /\ do_break = 0
    /\ do_continue = 0
    /\ return_value = NULL
    /\ return_address = 0
    /\ ncalls = 0
    /\ status = "registry"
    /\ err = ""
    /\ ev = [k |-> "init"]
    /\ opr = [op |-> "init", obj |-> NULL, n |-> 0, live |-> {},
              head |-> NULL, tail |-> NULL, nextobj |-> <<NULL>>, prevobj |-> <<NULL>>]

\* obj = obj_alloc(type): <type>.alloc(); enqueue(obj); obj_incref(obj)
RegAlloc ==
    /\ status = "registry"
    /\ opr.n < MaxObjs
    /\ \E type \in Types :
          LET a == TypeAlloc(heap, type)
              q == enqueue(WithFields(opr, a.h), a.obj)
          IN  /\ heap' = obj_incref(a.h, a.obj)
              /\ opr' = [q EXCEPT !.op = "alloc", !.obj = a.obj, !.n = @ + 1,
                                  !.live = @ \cup {a.obj}]
    /\ UNCHANGED otherVars

\* obj_free(obj): dequeue(obj); <type>.free(obj), which for none does nothing
RegFree ==
    /\ status = "registry"
    /\ \E o \in opr.live :
          /\ heap' = IF o = NoneAddr THEN heap ELSE [heap EXCEPT ![o].refcount = 0]
          /\ opr' = [dequeue(opr, o) EXCEPT !.op = "free", !.obj = o,
                                            !.live = @ \ {o}]
    /\ UNCHANGED otherVars

NextReg == RegAlloc \/ RegFree

SpecReg == InitReg /\ [][NextReg]_vars

RECURSIVE Walk(_, _, _)
\* the objects met by following nextobj from a, for at most fuel steps
Walk(q, a, fuel) ==
    IF a = NULL \/ fuel = 0 THEN << >>
    ELSE <<a>> \o Walk(q, q.nextobj[a], fuel - 1)

\* C19: after any sequence of obj_alloc and obj_free over any types, none
\* allocated repeatedly included, the registry is a well-formed doubly
\* linked list: following nextobj from head visits exactly the objects
\* allocated and not yet freed, each once, and ends at tail; prevobj is the
\* inverse of nextobj; head and tail are NULL exactly when no object is live
C19_RegistryWellFormed ==
    status = "registry" =>
        LET w == Walk(opr, opr.head, Len(heap) + 1)
        IN  /\ {w[i] : i \in 1..Len(w)} = opr.live
            /\ Len(w) = Cardinality(opr.live)
            /\ w # << >> => w[Len(w)] = opr.tail /\ opr.prevobj[w[1]] = NULL
            /\ \A i \in 2..Len(w) : opr.prevobj[w[i]] = w[i - 1]
            /\ (opr.head = NULL /\ opr.tail = NULL) <=> opr.live = {}
            /\ opr.head = NULL <=> opr.tail = NULL

----------------------------------------------------------------------------
(* Properties of the interpreter.  The token positions they speak of are   *)
(* computed from the program text alone, never by the interpreter's own    *)
(* skipping code.                                                          *)

Positions == 1..Len(prog)

\* INDENTs minus DEDENTs among the tokens 1 .. p
Level(p) == IF p \in Positions THEN prog[p].level ELSE 0

\* INDENTs minus DEDENTs among the tokens q+1 .. p
Balance(q, p) == Level(p) - Level(q)

\* p is the DEDENT that closes the block opened by the INDENT at q
Closes(q, p) ==
    /\ Tk(q) = "INDENT"
    /\ Tk(p) = "DEDENT"
    /\ q < p
    /\ Balance(q, p) = -1
    /\ \A r \in (q + 1)..(p - 1) : Balance(q, r) >= 0

\* p is the RPAR that closes the LPAR at q
ClosesParen(q, p) ==
    /\ Tk(q) = "LPAR"
    /\ Tk(p) = "RPAR"
    /\ q < p
    /\ \A r \in (q + 1)..(p - 1) :
          Cardinality({u \in (q + 1)..r : Tk(u) = "LPAR"})
          >= Cardinality({u \in (q + 1)..r : Tk(u) = "RPAR"})
    /\ Cardinality({u \in (q + 1)..p : Tk(u) = "RPAR"})
       = Cardinality({u \in (q + 1)..p : Tk(u) = "LPAR"}) + 1

\* the definitions at module level: their DEFFUNC tokens
ModuleDefs == {d \in Positions : Tk(d) = "DEFFUNC" /\ Balance(0, d) = 0}

\* the names of the identifiers in the frames sc, frame by frame
FrameNames(sc) ==
    [l \in 1..Len(sc) |-> [i \in 1..Len(sc[l]) |-> sc[l][i].name]]

\* C1: after any while, do-while or for statement finishes, do_break and
\* do_continue are both 0, also when the condition or the body of the loop
\* calls functions that execute break or continue
C1_FlagsClearAfterLoop ==
    ev.k = "loop_exit" => do_break = 0 /\ do_continue = 0

\* C2: whenever block() returns normally the current token is the DEDENT
\* that closes exactly that block, or ENDMARKER, whether the block ran to
\* its end or a pending break or continue made it skip its remaining
\* statements and their nested blocks
C2_BlockReturnsAtItsDedent ==
    ev.k = "block_return" => Tk(pos) = "ENDMARKER" \/ Closes(ev.ind, pos)

\* a block that skipped a nested block on its way to its own DEDENT
C2_SkippedNestedBlock ==
    /\ ev.k = "block_return"
    /\ ev.ff > 0
    /\ Tk(pos) = "DEDENT"
    /\ \E r \in ev.ff..pos : Tk(r) = "INDENT"

\* C3: when function_call returns, the depth of the scope stack and the
\* identifier names visible, frame by frame, are those of the moment the
\* call was issued
C3_ScopeRestoredAfterCall ==
    ev.k = "call_return" =>
        /\ Len(scope) = Len(ev.scope0)
        /\ FrameNames(scope) = FrameNames(ev.scope0)
        /\ VisibleNames(scope) = VisibleNames(ev.scope0)

\* a call has returned whose body made a recursive call and then left
\* through a return inside an if inside a while
C3_NestedCallReturned ==
    /\ ev.k = "call_return"
    /\ ev.viaReturn
    /\ ev.nested
    /\ {"while_stmnt", "if_stmnt"} \subseteq ev.left
    /\ ev.n > 0

\* C4: when a return statement runs, when a body is entered and when a call
\* is over, the return continuation is that of the innermost active call
\* (main's when no call is active), so a return ends the innermost call and
\* no other, whatever blocks and loops it leaves; when a call is over the
\* continuation of its caller is current again and the call resumes after
\* the closing parenthesis of its own call site
C4_ReturnTargetsInnermostCall ==
    /\ ((status = "run" /\ Top.fn = "return_stmt") \/ ev.k \in {"args", "call_return"}) =>
          return_address = InnermostCall(stack)
    /\ ev.k = "longjmp" =>
          /\ ev.target = ev.innermost
          /\ Top.fn = "function_call" /\ Top.pc = "body" /\ Top.act = ev.target
          /\ "function_call" \notin ev.left
    /\ ev.k = "call_return" =>
          \E r \in Positions : ClosesParen(ev.lpar, r) /\ pos = ScanNext(r)

\* after a nested call completed, a return inside a loop of the caller's
\* body has ended the caller's own call
C4_ReturnAfterNestedCall ==
    /\ ev.k = "longjmp"
    /\ ev.target < ncalls
    /\ "while_stmnt" \in ev.left
    /\ Len(ActiveCalls(stack)) = 1

\* C5: when the program has run to ENDMARKER every object still live has
\* been handed to an identifier: the temporaries of the statements (results
\* of expressions, saved positions, the sequence of a for statement,
\* argument lists) are all released
C5_NoTemporaryLeftAtEnd ==
    status = "done" => \A a \in Live(heap) : heap[a].bound

\* the last DEFFUNC token before the token at p (0: none)
RECURSIVE DefBefore(_)
DefBefore(p) ==
    IF p <= 1 THEN 0
    ELSE IF Tk(p - 1) = "DEFFUNC" THEN p - 1 ELSE DefBefore(p - 1)

\* the first INDENT after the token at d
RECURSIVE BodyStart(_)
BodyStart(d) ==
    IF d >= Len(prog) \/ Tk(d + 1) = "INDENT" THEN d + 1 ELSE BodyStart(d + 1)

\* the token at p lies in the body of the definition at d
InBody(d, p) ==
    /\ Tk(d) = "DEFFUNC"
    /\ Level(d) = 0
    /\ LET b == BodyStart(d)
       IN  b < p /\ \A r \in (b + 1)..p : Level(r) >= Level(b)

\* the module frame binds the name defined at d to the position of that name
FunctionBound(d) ==
    \E i \in 1..Len(scope[1]) :
        /\ scope[1][i].name = Token(d + 1).s
        /\ scope[1][i].object # NULL
        /\ heap[scope[1][i].object].type = "position"
        /\ heap[scope[1][i].object].val = d + 1

\* C7: when the pre-scan is over, so before the first statement is executed,
\* and at every call, every function defined at module level is bound to a
\* position in the module frame; no call of such a function fails to find
\* it, wherever the call stands; and a statement of a function body is
\* executed only inside a call of that function
C7_FunctionsBoundBeforeExecution ==
    /\ ev.k \in {"prescan_done", "call"} => \A d \in ModuleDefs : FunctionBound(d)
    /\ (ev.k = "statement" /\ InBody(DefBefore(ev.at), ev.at)) =>
          /\ ActiveCalls(stack) # << >>
          /\ heap[ActiveCalls(stack)[Len(ActiveCalls(stack))].addr].val
             = DefBefore(ev.at) + 1
    /\ (status = "error" /\ Top.fn = "assignment_expr" /\ Top.pc = "start"
        /\ Tk(pos) = "IDENTIFIER" /\ Tk(ScanNext(pos)) = "LPAR") =>
          \A d \in ModuleDefs : Token(d + 1).s # Token(pos).s

\* a statement of a function body runs in a call that stands before the
\* definition in the text
C7_CalledBeforeDefinition ==
    /\ ev.k = "statement"
    /\ InBody(DefBefore(ev.at), ev.at)
    /\ ActiveCalls(stack) # << >>
    /\ ActiveCalls(stack)[1].lpar < DefBefore(ev.at)

\* the names of the formal parameters listed after the LPAR at p
RECURSIVE FormalNames(_)
FormalNames(p) ==
    IF Tk(ScanNext(p)) \in {"RPAR", "NEWLINE", "ENDMARKER"} THEN << >>
    ELSE IF Tk(ScanNext(p)) = "IDENTIFIER"
    THEN <<Token(ScanNext(p)).s>> \o FormalNames(ScanNext(p))
    ELSE FormalNames(ScanNext(p))

\* C8: a call with m arguments of a function with n formals fails with
\* SyntaxError when n > m; when n <= m the new frame holds exactly the n
\* formals, in order, bound to the first n argument values, the frames and
\* the values of the caller are untouched, and the m - n arguments left over
\* are released with the argument list when the call is over
C8_FormalsBoundToFirstArguments ==
    /\ ev.k = "args" =>
          IF ev.n > ev.m
          THEN status = "error" /\ err = "SyntaxError"
          ELSE /\ status = "run"
               /\ Len(scope) = Len(ev.scope0) + 1
               /\ Len(scope[Len(scope)]) = ev.n
               /\ \A i \in 1..ev.n :
                     LET b == scope[Len(scope)][i]
                     IN  /\ b.name = FormalNames(ev.formals)[i]
                         /\ b.object # NULL
                         /\ heap[b.object].type = ev.args[i].type
                         /\ heap[b.object].val = ev.args[i].val
               /\ SubSeq(scope, 1, Len(ev.scope0)) = ev.scope0
               /\ BoundValues(ev.scope0, heap) = ev.values0
    /\ ev.k = "call_return" =>
          /\ Len(ev.excess) = ev.m - ev.n
          /\ heap[ev.arglist].refcount = 0
          /\ \A i \in 1..Len(ev.excess) : heap[ev.excess[i]].refcount = 0

\* a call with more arguments than formals is over
C8_ExcessArgumentsDiscarded ==
    /\ ev.k = "call_return"
    /\ ev.n > 0
    /\ ev.m > ev.n

\* C9: function_call yields an int 0 whenever its body finished without a
\* return statement, also after nested calls that returned other values;
\* the return slot is empty when a body is entered and empty again when a
\* call has handed its result to the caller
C9_DefaultResultIsIntZero ==
    /\ (ev.k = "call_return" /\ ~ev.viaReturn) =>
          /\ heap[cret].type = "int"
          /\ heap[cret].val = 0
          /\ heap[cret].refcount > 0
    /\ (ev.k = "args" /\ status = "run") => return_value = NULL
    /\ ev.k = "call_return" => return_value = NULL

\* a body without return is over that made a nested call
C9_BodyWithoutReturnAfterCall ==
    /\ ev.k = "call_return"
    /\ ~ev.viaReturn
    /\ ev.nested

\* the calls of while_stmnt that have not returned, outermost first
WhileFrames == SelectSeq(stack, LAMBDA f : f.fn = "while_stmnt" /\ f.pc # "start")

\* C14: when a while statement completes, the current token is the first
\* one after the DEDENT that closes its block, whether the condition was
\* false at once, became false after some iterations, or the loop was left
\* by break; and the body has run once for each evaluation of the condition
\* that yielded true while no break was pending
C14_WhileEndsAfterItsBlock ==
    (ev.k = "loop_exit" /\ ev.fn = "while_stmnt") =>
        /\ Closes(BodyStart(ev.at), pos - 1)
        /\ ev.bodies = ev.trues

\* a while statement whose block holds a nested block was left by break
C14_WhileLeftByBreak ==
    /\ ev.k = "loop_exit"
    /\ ev.fn = "while_stmnt"
    /\ ev.pending = 1
    /\ ev.bodies = 1
    /\ \E r \in BodyStart(ev.at)..(pos - 2) : Tk(r) = "DEDENT"

\* C18: once a break has been executed in the body of a while loop, the
\* condition is evaluated exactly once more and the loop exits: the body
\* is not executed again, whatever that evaluation yields
C18_OneEvaluationAfterBreak ==
    /\ \A i \in 1..Len(WhileFrames) :
          WhileFrames[i].broken >= 0 =>
              /\ WhileFrames[i].trues <= WhileFrames[i].broken
              /\ WhileFrames[i].evals <= WhileFrames[i].broken + 1
    /\ (ev.k = "loop_exit" /\ ev.fn = "while_stmnt" /\ ev.broken >= 0) =>
          /\ ev.evals = ev.broken + 1
          /\ ev.bodies = ev.broken

\* C17: a function call leaves the loop-control flags of its caller as they
\* were: when function_call returns, do_break and do_continue have the
\* values they had when it was entered, whatever the body executed, a
\* break or continue outside any loop of the callee included
C17_CallKeepsLoopFlags ==
    ev.k = "call_return" => <<do_break, do_continue>> = ev.flags0

\* the DEDENT that closes the block opened by the INDENT at q
CloseOf(q) == CHOOSE p \in Positions : Closes(q, p)

\* of the if statement whose condition starts at p: the DEDENT of its
\* then-block, whether an else follows it, the DEDENT of its else-block,
\* and the first token after the statement
ThenEnd(p) == CloseOf(BodyStart(p))
HasElse(p) == Tk(ThenEnd(p) + 1) = "ELSE"
ElseEnd(p) == CloseOf(BodyStart(ThenEnd(p) + 1))
IfEnd(p)   == IF HasElse(p) THEN ElseEnd(p) + 1 ELSE ThenEnd(p) + 1

\* the running if statements of the function that is executing
IfFrames ==
    {i \in 1..Len(stack) :
        /\ stack[i].fn = "if_stmnt"
        /\ stack[i].pc \in {"then", "else"}
        /\ \A j \in (i + 1)..Len(stack) : stack[j].fn # "function_call"}

\* C15: an if statement, with or without else, runs its then-block exactly
\* when the condition is true and its else-block exactly when the condition
\* is false and there is an else; no statement of the other block is
\* executed; and the statement ends at the first token after the DEDENT of
\* the last block of the construct
C15_IfRunsOneBlock ==
    /\ ev.k = "if_exit" =>
          /\ pos = IfEnd(ev.at)
          /\ ev.ran = IF ev.cond # 0 THEN "then"
                      ELSE IF HasElse(ev.at) THEN "else" ELSE "none"
    /\ ev.k = "statement" =>
          \A i \in IfFrames :
              IF stack[i].pc = "then"
              THEN /\ stack[i].cond # 0
                   /\ ev.at \in BodyStart(stack[i].at)..ThenEnd(stack[i].at)
              ELSE /\ stack[i].cond = 0
                   /\ ev.at \in (ThenEnd(stack[i].at) + 1)..ElseEnd(stack[i].at)

\* the else-block of an if statement was run and its then-block skipped
C15_ElseBlockRun ==
    /\ ev.k = "if_exit"
    /\ ev.ran = "else"
    /\ ev.cond = 0
    /\ pos = ElseEnd(ev.at) + 1

\* item i, counted from 0, of the sequence at address a: its type and value
ItemOf(h, a, i) ==
    IF isString(h, a) THEN [type |-> "char", val |-> h[a].val[i + 1]]
    ELSE [type |-> h[Deref(h, h[a].val[i + 1])].type,
          val  |-> h[Deref(h, h[a].val[i + 1])].val]

\* C16: a for statement binds its identifier to item(seq, i) for i = 0, 1,
\* ... in order and unbinds it after each iteration, so after a loop of at
\* least one iteration the identifier has no value, also when it was a
\* variable with a value before the loop; over a sequence of length 0 the
\* identifier keeps the binding it had
C16_ForBindsItemsInOrder ==
    (ev.k = "loop_exit" /\ ev.fn = "for_stmnt") =>
        /\ ev.iters <= ev.n
        /\ ev.pending = 0 => ev.iters = ev.n
        /\ Len(ev.items) = ev.iters
        /\ \A i \in 1..ev.iters :
              ev.items[i] = ItemOf(heap, Deref(heap, ev.sequence), i - 1)
        /\ ev.iters >= 1 => ObjOf(scope, ev.id) = NULL
        /\ ev.n = 0 =>
              /\ ObjOf(scope, ev.id) = ev.prior.object
              /\ ev.prior.object # NULL =>
                    /\ heap[ev.prior.object].refcount > 0
                    /\ heap[ev.prior.object].val = ev.prior.val

\* a for statement over a variable that had a value has run its block
C16_LoopOverDeclaredVariable ==
    /\ ev.k = "loop_exit"
    /\ ev.fn = "for_stmnt"
    /\ ev.iters >= 1
    /\ ev.prior.object # NULL
    /\ ObjOf(scope, ev.id) = NULL

====
